---- MODULE Spec2Model ----
(***************************************************************************)
(* Vietnamese voice chat: conversation history, speech-synthesis fallback, *)
(* voice-activity recording, playback, the per-turn conversation loop and  *)
(* the upload handlers of the web applications.                            *)
(*                                                                         *)
(* The module holds one state machine per component.  Each component has   *)
(* its own specification (SpecHist, SpecTTS, SpecSync, SpecVAD, SpecPlay,  *)
(* SpecLoop, SpecUpload); the variables of the other components stay at    *)
(* their initial values.  SpecTurn composes the loop with the recording    *)
(* and the playback of its AudioHandler.                                   *)
(***************************************************************************)
EXTENDS Integers, Sequences, FiniteSets, TLC

VARIABLES
    \* GPTLLM / PureSyncLLM
    conversation_history,   \* self.conversation_history
    appended,               \* every entry ever passed to add_to_history since the last clear
    \* VietnameseTTS
    tts_is_initialized,     \* self.is_initialized
    use_fallback,           \* self.use_fallback   ("unset" until assigned: hasattr is false)
    gtts_available,         \* self.gtts_available ("unset" until assigned)
    tts_available,          \* self.tts_available  ("unset" until assigned)
    ttsPc,                  \* position of the running synthesize call
    ttsText,                \* len(text) of the running call
    tried,                  \* providers invoked by the running call: outcome, len(text) received
    ttsResult,              \* what synthesize returned
    unusable,               \* providers that initialize found unusable (model load, import or probe failed)
    init_path,              \* the path by which initialize last set the object up, "none" before
    \* PureSyncTTS; the locals of synthesize are indexed by the call
    sync_is_initialized,    \* self.is_initialized
    syncCall,               \* number of the running (or last) synthesize call, 0 before the first
    syncPc,                 \* position of the running synthesize call
    syncText,               \* len(text) handed to gTTS by the running call
    thr,                    \* thr[c]: the provider thread tts_thread of call c
    success,                \* success[c]: success[0] of call c
    error,                  \* error[c]: error[0] of call c is set
    file,                   \* file[c]: the temporary file temp_path of call c
    joinTimedOut,           \* joinTimedOut[c]: thread.join(timeout=5.0) of call c ended at its deadline
    syncResult,             \* syncResult[c]: what call c returned
    \* VietnameseVoiceChat.conversation_loop
    is_running,             \* self.is_running
    conversation_count,     \* self.conversation_count
    loopPc,                 \* position of the loop
    hung,                   \* the backend call being awaited never returns
    user_input,             \* what process_voice_input returned this turn, << >> for None
    ai_response,            \* what generate_response returned this turn
    speech,                 \* what tts.synthesize returned this turn
    invoked,                \* the stages called so far in this turn
    turn_result,            \* how this turn ended, "none" while it runs
    turn_base,              \* len of the log of history entries when this turn started
    raised,                 \* the stages in which an exception has been raised so far
    loop_error,             \* conversation_loop caught an exception and ended
    response,               \* what the Whisper backend answered in this turn
    messages,               \* what the reply backend was sent in this turn, << >> if nothing
    \* AudioHandler recording and record_with_vad
    is_recording,           \* self.is_recording
    recorded_frames,        \* self.recorded_frames
    audio_queue,            \* self.audio_queue, the inbound channel
    recording_stream,       \* self.recording_stream: "none" until assigned, "active", "stopped"
    active_streams,         \* input streams started on the device and not stopped
    vadPc,                  \* position of the record_with_vad call
    max_duration,           \* its argument
    start_time,             \* its local start_time
    last_voice_time,        \* its local last_voice_time
    recording_started,      \* its local recording_started
    now,                    \* time.time(), in ticks
    produced,               \* frames the callback has enqueued so far
    owner,                  \* who started the active recording: "vad", "other", "none"
    vadResult,              \* what record_with_vad returned
    endReason,              \* how its loop ended: "silence", "timeout", "flag"
    endedAt,                \* the time at which its loop ended
    lastVoicedAt,           \* the time at which the loop took the latest voiced frame
    detector,               \* SegmentDetector state after the latest frame taken
    rearmed,                \* a voiced frame was taken during trailing silence
    rejected,               \* start_recording calls made while a recording was active
    last_start,             \* what the latest start_recording call returned
    stt_input,              \* the audio process_voice_input handed to transcribe_audio
    whisper_called,         \* transcribe_audio sent that audio to the Whisper backend
    session_base,           \* frames the callback had emitted when record_with_vad was called
    \* AudioHandler playback; the locals of play_audio are indexed by the calling thread
    is_playing,             \* self.is_playing
    playPc,                 \* playPc[t]: position of the play_audio call of thread t
    playRet,                \* playRet[t]: what that call returned
    plays,                  \* play_audio calls made so far
    \* the upload handlers: voice_chat and convert_audio_to_numpy of app.py, app_realtime.py
    upApp,                  \* the application that received the upload
    upBlob,                 \* the uploaded file: extension, native rate, channels
    upEnv,                  \* what the decoders do with it
    upPc,                   \* position of the request
    upTried,                \* the decoders launched for this upload, in order
    upBuffer,               \* what convert_audio_to_numpy returned
    upInvoked,              \* the stages the handler called after the conversion
    upError,                \* the 'error' of the response, "" for none
    uploads,                \* uploads received so far
    \* the audio files the handlers leave in tempfile.gettempdir() and serve_audio
    audio_files,            \* ids of the .wav files present
    serves,                 \* serves[id]: how often serve_audio has sent the file of id
    serve_status,           \* HTTP status of the last serve_audio response, 0 before the first
    \* upload turns running at once on the PureSyncLLM of the threaded server
    reqPc,                  \* reqPc[t]: position of generate_response in handler thread t
    reqUser,                \* reqUser[t]: ordinal of the user entry the turn of t appended, 0 before
    reqAsst,                \* reqAsst[t]: ordinal of the assistant entry it appended, 0 before
    reqRead,                \* reqRead[t]: entries of the history its messages list took
    \* stop_playback and cleanup of the AudioHandler, called from another thread
    stopPc,                 \* position of the stop_playback call
    stops,                  \* stop_playback and cleanup calls made so far
    \* the globals of app.py, the background initialisation and the request handlers
    stt,                    \* the global stt: "None" or "object"
    llm,                    \* the global llm
    tts,                    \* the global tts
    app_is_initialized,     \* the global is_initialized
    initPc,                 \* next statement of initialize_components, 0 once it has raised
    hPc,                    \* hPc[t]: position of the request handled by thread t
    hSaw,                   \* hSaw[t]: what its test of is_initialized read
    hStatus,                \* hStatus[t]: HTTP status of its response, 0 while it runs
    hTouched,               \* hTouched[t]: the handles it has used
    nullUse,                \* some request used a handle that was still None
    requests                \* requests received so far

histVars == <<conversation_history, appended>>
ttsVars == <<tts_is_initialized, use_fallback, gtts_available, tts_available,
             ttsPc, ttsText, tried, ttsResult, unusable, init_path>>

syncVars == <<sync_is_initialized, syncCall, syncPc, syncText, thr, success, error, file,
              joinTimedOut, syncResult>>

loopVars == <<is_running, conversation_count, loopPc, hung, user_input, ai_response, speech,
              invoked, turn_result, turn_base, raised, loop_error, response,
              messages>>

\* the AudioHandler object and the device
handlerVars == <<is_recording, recorded_frames, audio_queue, recording_stream, active_streams>>
\* the locals of record_with_vad
localVars == <<max_duration, start_time, last_voice_time, recording_started>>
\* what the model records about the session
sessionVars == <<endReason, endedAt, lastVoicedAt, detector, rearmed>>

\* what the model records about start_recording calls and the transcription
callVars == <<rejected, last_start, stt_input, whisper_called, session_base>>

vadVars == <<handlerVars, localVars, sessionVars, vadPc, now, produced, owner, vadResult,
             callVars>>

playVars == <<is_playing, playPc, playRet, plays>>

upVars == <<upApp, upBlob, upEnv, upPc, upTried, upBuffer, upInvoked, upError, uploads>>

artVars == <<audio_files, serves, serve_status>>

reqVars == <<reqPc, reqUser, reqAsst, reqRead>>

stopVars == <<stopPc, stops>>

bootVars == <<stt, llm, tts, app_is_initialized, initPc, hPc, hSaw, hStatus, hTouched, nullUse,
              requests>>

vars == <<histVars, ttsVars, syncVars, loopVars, vadVars, playVars, upVars, artVars, reqVars, stopVars, bootVars>>

\* what the steps of one component leave alone
HistOthers == <<ttsVars, syncVars, loopVars, vadVars, playVars, upVars, artVars, reqVars, stopVars, bootVars>>
TTSOthers == <<histVars, syncVars, loopVars, vadVars, playVars, upVars, artVars, reqVars, stopVars, bootVars>>
SyncOthers == <<histVars, ttsVars, loopVars, vadVars, playVars, upVars, artVars, reqVars, stopVars, bootVars>>
\* the loop appends to the history of its GPTLLM
LoopOthers == <<ttsVars, syncVars, vadVars, playVars, upVars, artVars, reqVars, stopVars, bootVars>>
VadOthers == <<histVars, ttsVars, syncVars, loopVars, playVars, upVars, artVars, reqVars, stopVars, bootVars>>
PlayOthers == <<histVars, ttsVars, syncVars, loopVars, vadVars, upVars, artVars, reqVars, stopVars, bootVars>>
UpOthers == <<histVars, ttsVars, syncVars, loopVars, vadVars, playVars, artVars, reqVars, stopVars, bootVars>>
ArtOthers == <<histVars, ttsVars, syncVars, loopVars, vadVars, playVars, upVars, reqVars, stopVars, bootVars>>
\* a concurrent turn appends to the history of the shared PureSyncLLM
ReqOthers == <<ttsVars, syncVars, loopVars, vadVars, playVars, upVars, artVars, stopVars, bootVars>>
\* stop_playback lowers is_playing, cleanup also stops the recording
StopOthers == <<histVars, ttsVars, syncVars, loopVars, upVars, artVars, reqVars, bootVars>>
BootOthers == <<histVars, ttsVars, syncVars, loopVars, vadVars, playVars, upVars, artVars, reqVars, stopVars>>

----------------------------------------------------------------------------
(* Bounds of the model *)

\* number of add_to_history calls explored
MaxAppends == 12

\* longest text handed to VietnameseTTS.synthesize, in characters
MaxTextLen == 6

\* number of PureSyncTTS.synthesize calls explored
MaxCalls == 2

\* number of conversation turns explored
MaxTurns == 3

\* number of turns explored in a conversation long enough to fill the history
MaxChatTurns == 6

\* frames the audio callback delivers
MaxFrames == 4

\* the clock stops here, in ticks of half a second
MaxTime == 6

\* start_recording calls explored while a recording is active
MaxRejected == 2

\* play_audio calls explored
MaxPlays == 4

\* stop_playback and cleanup calls in one run
MaxStops == 2

\* requests the web application receives in one run
MaxRequests == 3

\* uploads explored
MaxUploads == 2

\* requests for one audio file explored
MaxServes == 3

----------------------------------------------------------------------------
(* Helpers *)

\* Python's s[-n:] for n > 0
LastN(s, n) == IF Len(s) <= n THEN s ELSE SubSeq(s, Len(s) - n + 1, Len(s))

\* Python's s[:n]
FirstN(s, n) == IF Len(s) <= n THEN s ELSE SubSeq(s, 1, n)

----------------------------------------------------------------------------
(* Conversation history: GPTLLM.add_to_history, PureSyncLLM.add_to_history *)

\* "Keep only last 10 messages"
HistoryCap == 10

Roles == {"user", "assistant"}

\* a variant that keeps the oldest entries instead of the newest
add_to_history_keep_first(history, role, content) ==
    LET a == Append(history, [role |-> role, content |-> content])
    IN  IF Len(a) > HistoryCap THEN FirstN(a, HistoryCap) ELSE a

add_to_history(history, role, content) ==
    LET a == Append(history, [role |-> role, content |-> content])
    IN  IF Len(a) > HistoryCap THEN LastN(a, HistoryCap) ELSE a

HistInit ==
    /\ conversation_history = << >>
    /\ appended = << >>

\* one call of add_to_history; the content is the ordinal of the message
AddToHistory(role) ==
    /\ Len(appended) < MaxAppends
    /\ LET content == Len(appended) + 1
       IN  /\ conversation_history' = add_to_history(conversation_history, role, content)
           /\ appended' = Append(appended, [role |-> role, content |-> content])
    /\ UNCHANGED HistOthers

ClearHistory ==
    /\ conversation_history # << >>
    /\ conversation_history' = << >>
    /\ appended' = << >>
    /\ UNCHANGED HistOthers

HistNext ==
    \/ \E role \in Roles : AddToHistory(role)
    \/ ClearHistory

----------------------------------------------------------------------------
(* C5: after any sequence of add_to_history calls the history holds at most
   HistoryCap (10) entries, and they are exactly the most recent appended
   entries in append order (the oldest are evicted first). *)
C5_HistoryBounded ==
    /\ Len(conversation_history) <= HistoryCap
    /\ conversation_history = LastN(appended, HistoryCap)

\* an eviction has happened: more than the cap was appended
C5_Witness ==
    /\ Len(appended) > HistoryCap
    /\ Len(conversation_history) = HistoryCap
    /\ conversation_history[1].content = Len(appended) - HistoryCap + 1

----------------------------------------------------------------------------
(* Speech synthesis: VietnameseTTS *)

\* "Limit text length to avoid timeout"
TruncateCap == 200

\* len("...")
MarkerLen == 3

\* len(text) of the texts handed to synthesize: short ones, one at the cap
\* of PureSyncTTS and one beyond the cap and its marker
TTSTextLens == (0..MaxTextLen) \cup {TruncateCap, TruncateCap + MarkerLen + 1}

\* the fixed order: primary voice model, gTTS, the OS utility say, the tone
Rank(p) == CASE p = "primary" -> 1 [] p = "gtts" -> 2 [] p = "say" -> 3 [] p = "tone" -> 4

Providers == {"primary", "gtts", "say", "tone"}

\* what a provider call can do: return samples, return no samples, raise
Outcomes == {"audio", "empty", "raise"}

NoResult == [provider |-> "none", samples |-> 0]

Attrs(init, uf, ga, ta) ==
    [is_initialized |-> init, use_fallback |-> uf, gtts_available |-> ga, tts_available |-> ta]

\* what a probe of _initialize_fallback can do: succeed, fail with the
\* exception the code expects (ImportError; CalledProcessError or
\* FileNotFoundError), or raise another exception
ProbeOutcomes == {"ok", "fail", "error"}

\* _initialize_fallback: the first importable/usable tier is selected and the
\* method returns at once, leaving the flags of the other tiers unassigned;
\* an unexpected exception of a probe goes to the outer except branch, which
\* selects the placeholder
initialize_fallback(a, gttsImport, sayProbe) ==
    IF gttsImport = "ok"
    THEN Attrs(TRUE, "T", "T", a.tts_available)
    ELSE IF gttsImport = "fail" /\ sayProbe = "ok"
         THEN Attrs(TRUE, "T", a.gtts_available, "T")
         ELSE Attrs(TRUE, "T", "F", "F")

\* initialize without the test of is_initialized
initialize_unguarded(a, modelLoad, gttsImport, sayProbe) ==
    IF modelLoad = "ok"
    THEN Attrs(TRUE, "F", a.gtts_available, a.tts_available)
    ELSE initialize_fallback(a, gttsImport, sayProbe)

\* initialize: a no-op when already initialised; the primary model when it
\* loads; otherwise the fallback selection
initialize(a, modelLoad, gttsImport, sayProbe) ==
    IF a.is_initialized
    THEN a
    ELSE IF modelLoad = "ok"
         THEN Attrs(TRUE, "F", a.gtts_available, a.tts_available)
         ELSE initialize_fallback(a, gttsImport, sayProbe)

\* the path a call of initialize takes; a call on an initialised object
\* returns at once and the path of the earlier call stays
InitPath(a, before, modelLoad, gttsImport, sayProbe) ==
    IF a.is_initialized THEN before
    ELSE IF modelLoad = "ok" THEN "primary"
    ELSE IF gttsImport = "ok" THEN "gtts"
    ELSE IF gttsImport = "error" THEN "error"
    ELSE IF sayProbe = "ok" THEN "say"
    ELSE IF sayProbe = "error" THEN "error"
    ELSE "placeholder"

\* the providers a call of initialize finds unusable
FoundUnusable(a, modelLoad, gttsImport, sayProbe) ==
    IF a.is_initialized \/ modelLoad = "ok"
    THEN {}
    ELSE {"primary"}
         \cup (IF gttsImport = "ok" THEN {} ELSE {"gtts"})
         \cup (IF gttsImport = "error" \/ (gttsImport = "fail" /\ sayProbe # "ok")
               THEN {"say"} ELSE {})

CurrentAttrs == Attrs(tts_is_initialized, use_fallback, gtts_available, tts_available)

SetAttrs(a) ==
    /\ tts_is_initialized' = a.is_initialized
    /\ use_fallback' = a.use_fallback
    /\ gtts_available' = a.gtts_available
    /\ tts_available' = a.tts_available

\* _synthesize_fallback after the gTTS branch: say if flagged, else the tone
AfterGtts(a) == IF a.tts_available = "T" THEN "say" ELSE "tone"

\* entry of _synthesize_fallback: gTTS if flagged, else as after gTTS
FallbackEntry(a) == IF a.gtts_available = "T" THEN "gtts" ELSE AfterGtts(a)

\* the placeholder: len(text) * 0.1 seconds of a 440 Hz tone
ToneSamples(textLen) == textLen

TTSInit ==
    /\ tts_is_initialized = FALSE
    /\ use_fallback = "unset"
    /\ gtts_available = "unset"
    /\ tts_available = "unset"
    /\ ttsPc = "idle"
    /\ ttsText = 0
    /\ tried = << >>
    /\ ttsResult = NoResult
    /\ unusable = {}
    /\ init_path = "none"

EnvOutcomes == {"ok", "fail"}

\* VietnameseVoiceChat.initialize -> tts.initialize()
TTSInitialize(modelLoad, gttsImport, sayProbe) ==
    /\ ttsPc \in {"idle", "done"}
    /\ SetAttrs(initialize(CurrentAttrs, modelLoad, gttsImport, sayProbe))
    /\ unusable' = unusable \cup FoundUnusable(CurrentAttrs, modelLoad, gttsImport, sayProbe)
    /\ init_path' = InitPath(CurrentAttrs, init_path, modelLoad, gttsImport, sayProbe)
    /\ UNCHANGED <<ttsPc, ttsText, tried, ttsResult>>
    /\ UNCHANGED TTSOthers

\* synthesize up to the first provider call: initialise if needed, then the
\* fallback chain when use_fallback is set, else the primary model
SynthesizeStart(textLen, modelLoad, gttsImport, sayProbe) ==
    /\ ttsPc \in {"idle", "done"}
    /\ LET a == initialize(CurrentAttrs, modelLoad, gttsImport, sayProbe)
       IN  /\ SetAttrs(a)
           /\ ttsPc' = IF a.use_fallback = "T" THEN FallbackEntry(a) ELSE "primary"
    /\ unusable' = unusable \cup FoundUnusable(CurrentAttrs, modelLoad, gttsImport, sayProbe)
    /\ init_path' = InitPath(CurrentAttrs, init_path, modelLoad, gttsImport, sayProbe)
    /\ ttsText' = textLen
    /\ tried' = << >>
    /\ ttsResult' = NoResult
    /\ UNCHANGED TTSOthers

Return(provider, samples) ==
    /\ ttsResult' = [provider |-> provider, samples |-> samples]
    /\ ttsPc' = "done"

\* infer_process: its wave is returned as it is; an exception goes to
\* _synthesize_fallback
PrimaryCall(outcome) ==
    /\ ttsPc = "primary"
    /\ tried' = Append(tried, [provider |-> "primary", outcome |-> outcome, len |-> ttsText])
    /\ IF outcome = "raise"
       THEN /\ ttsPc' = FallbackEntry(CurrentAttrs)
            /\ UNCHANGED ttsResult
       ELSE Return("primary", IF outcome = "audio" THEN 1 ELSE 0)
    /\ UNCHANGED <<tts_is_initialized, use_fallback, gtts_available, tts_available, ttsText, unusable, init_path>>
    /\ UNCHANGED TTSOthers

\* the gTTS branch: np.max of an empty array raises, so an empty result is
\* handled like an exception
GttsCall(outcome) ==
    /\ ttsPc = "gtts"
    /\ tried' = Append(tried, [provider |-> "gtts", outcome |-> outcome, len |-> ttsText])
    /\ IF outcome = "audio"
       THEN Return("gtts", 1)
       ELSE /\ ttsPc' = AfterGtts(CurrentAttrs)
            /\ UNCHANGED ttsResult
    /\ UNCHANGED <<tts_is_initialized, use_fallback, gtts_available, tts_available, ttsText, unusable, init_path>>
    /\ UNCHANGED TTSOthers

\* the say branch: what sf.read gives is returned as it is
SayCall(outcome) ==
    /\ ttsPc = "say"
    /\ tried' = Append(tried, [provider |-> "say", outcome |-> outcome, len |-> ttsText])
    /\ IF outcome = "raise"
       THEN /\ ttsPc' = "tone"
            /\ UNCHANGED ttsResult
       ELSE Return("say", IF outcome = "audio" THEN 1 ELSE 0)
    /\ UNCHANGED <<tts_is_initialized, use_fallback, gtts_available, tts_available, ttsText, unusable, init_path>>
    /\ UNCHANGED TTSOthers

\* the placeholder tone
ToneCall ==
    /\ ttsPc = "tone"
    /\ tried' = Append(tried, [provider |-> "tone",
                               outcome |-> IF ToneSamples(ttsText) > 0 THEN "audio" ELSE "empty",
                               len |-> ttsText])
    /\ Return("tone", ToneSamples(ttsText))
    /\ UNCHANGED <<tts_is_initialized, use_fallback, gtts_available, tts_available, ttsText, unusable, init_path>>
    /\ UNCHANGED TTSOthers

\* self.sample_rate of VietnameseTTS, assigned once in __init__
TtsSampleRate == 24000

\* the rate the say command is told to write: --data-format=LEF32@22050
SayRate == 22050

\* the rate of the buffer a tier returns: the gTTS branch resamples what it
\* decoded to self.sample_rate, the say branch returns what sf.read gave at
\* the rate of the file, the tone is computed at self.sample_rate, and the
\* wave of the primary model is returned at the rate of the model, the
\* "default sample rate for F5-TTS" that __init__ stores
ProducedRate(provider) ==
    CASE provider = "say" -> SayRate
      [] OTHER -> TtsSampleRate

\* speak_response plays the buffer at self.tts.sample_rate
PlayedRate == TtsSampleRate

TTSNext ==
    \/ \E m \in EnvOutcomes : \E g, y \in ProbeOutcomes : TTSInitialize(m, g, y)
    \/ \E n \in TTSTextLens : \E m \in EnvOutcomes : \E g, y \in ProbeOutcomes :
           SynthesizeStart(n, m, g, y)
    \/ \E o \in Outcomes : PrimaryCall(o)
    \/ \E o \in Outcomes : GttsCall(o)
    \/ \E o \in Outcomes : SayCall(o)
    \/ ToneCall

----------------------------------------------------------------------------
(* Speech synthesis: PureSyncTTS *)

Calls == 1..MaxCalls

\* text = text[:200] + "..." when len(text) > 200
TruncatedLen(n) == IF n > TruncateCap THEN TruncateCap + MarkerLen ELSE n

TextLens == {0, 5, TruncateCap, TruncateCap + 1}

SyncInit ==
    /\ sync_is_initialized = FALSE
    /\ syncCall = 0
    /\ syncPc = "idle"
    /\ syncText = 0
    /\ thr = [c \in Calls |-> "none"]
    /\ success = [c \in Calls |-> FALSE]
    /\ error = [c \in Calls |-> FALSE]
    /\ file = [c \in Calls |-> "absent"]
    /\ joinTimedOut = [c \in Calls |-> FALSE]
    /\ syncResult = [c \in Calls |-> "pending"]

\* PureSyncTTS.initialize: is_initialized is set only when gTTS imports
SyncInitialize(gttsImport) ==
    /\ syncPc \in {"idle", "done"}
    /\ sync_is_initialized' = (sync_is_initialized \/ gttsImport = "ok")
    /\ UNCHANGED <<syncCall, syncPc, syncText, thr, success, error, file, joinTimedOut, syncResult>>
    /\ UNCHANGED SyncOthers

\* the return of call c with result r; the finally clause unlinks temp_path
\* when the call had created it
SyncReturn(c, r, unlink) ==
    /\ syncResult' = [syncResult EXCEPT ![c] = r]
    /\ file' = IF unlink THEN [file EXCEPT ![c] = "absent"] ELSE file
    /\ syncPc' = "done"

\* synthesize up to thread.start(): None when not initialised; the error
\* tone when the imports or the gTTS constructor raise; else the temporary
\* file is created and the provider thread started
SyncStart(textLen, ctor) ==
    /\ syncPc \in {"idle", "done"}
    /\ syncCall < MaxCalls
    /\ syncCall' = syncCall + 1
    /\ LET c == syncCall + 1
       IN  IF ~sync_is_initialized
           THEN /\ SyncReturn(c, "none", FALSE)
                /\ UNCHANGED <<syncText, thr>>
           ELSE IF ctor = "raise"
                THEN /\ SyncReturn(c, "error_tone", FALSE)
                     /\ syncText' = TruncatedLen(textLen)
                     /\ UNCHANGED thr
                ELSE /\ syncText' = TruncatedLen(textLen)
                     /\ file' = [file EXCEPT ![c] = "empty"]
                     /\ thr' = [thr EXCEPT ![c] = "running"]
                     /\ syncPc' = "join"
                     /\ UNCHANGED syncResult
    /\ UNCHANGED <<sync_is_initialized, success, error, joinTimedOut>>
    /\ UNCHANGED SyncOthers

\* tts_thread: tts.save(temp_path) opens temp_path for writing, which
\* creates the file when the path does not exist
ThreadOpen(c) ==
    /\ thr[c] = "running"
    /\ thr' = [thr EXCEPT ![c] = "writing"]
    /\ file' = [file EXCEPT ![c] = "empty"]
    /\ UNCHANGED <<sync_is_initialized, syncCall, syncPc, syncText, success, error,
                   joinTimedOut, syncResult>>
    /\ UNCHANGED SyncOthers

\* tts_thread: tts.save(temp_path) returns, the file is written; when the
\* path was unlinked after the open the data goes to the unlinked file
ThreadSave(c) ==
    /\ thr[c] = "writing"
    /\ thr' = [thr EXCEPT ![c] = "saved"]
    /\ file' = IF file[c] = "absent" THEN file ELSE [file EXCEPT ![c] = "written"]
    /\ UNCHANGED <<sync_is_initialized, syncCall, syncPc, syncText, success, error,
                   joinTimedOut, syncResult>>
    /\ UNCHANGED SyncOthers

\* tts_thread: success[0] = True, and the thread ends
ThreadSucceed(c) ==
    /\ thr[c] = "saved"
    /\ success' = [success EXCEPT ![c] = TRUE]
    /\ thr' = [thr EXCEPT ![c] = "ended"]
    /\ UNCHANGED <<sync_is_initialized, syncCall, syncPc, syncText, error, file,
                   joinTimedOut, syncResult>>
    /\ UNCHANGED SyncOthers

\* tts_thread: tts.save raises, error[0] = e, and the thread ends
ThreadFail(c) ==
    /\ thr[c] \in {"running", "writing"}
    /\ error' = [error EXCEPT ![c] = TRUE]
    /\ thr' = [thr EXCEPT ![c] = "ended"]
    /\ UNCHANGED <<sync_is_initialized, syncCall, syncPc, syncText, success, file,
                   joinTimedOut, syncResult>>
    /\ UNCHANGED SyncOthers

\* thread.join(timeout=5.0) returns because the thread has ended
JoinReturn ==
    /\ syncPc = "join"
    /\ thr[syncCall] = "ended"
    /\ syncPc' = "check_success"
    /\ UNCHANGED <<sync_is_initialized, syncCall, syncText, thr, success, error, file,
                   joinTimedOut, syncResult>>
    /\ UNCHANGED SyncOthers

\* thread.join(timeout=5.0) returns at its deadline, the thread still alive
JoinTimeout ==
    /\ syncPc = "join"
    /\ thr[syncCall] # "ended"
    /\ joinTimedOut' = [joinTimedOut EXCEPT ![syncCall] = TRUE]
    /\ syncPc' = "check_success"
    /\ UNCHANGED <<sync_is_initialized, syncCall, syncText, thr, success, error, file,
                   syncResult>>
    /\ UNCHANGED SyncOthers

\* if not success[0]
CheckSuccess ==
    /\ syncPc = "check_success"
    /\ syncPc' = IF success[syncCall] THEN "convert" ELSE "check_error"
    /\ UNCHANGED <<sync_is_initialized, syncCall, syncText, thr, success, error, file,
                   joinTimedOut, syncResult>>
    /\ UNCHANGED SyncOthers

\* if error[0]: raise error[0] (the error tone); else raise TimeoutError,
\* caught by except TimeoutError, where the fallback beep is generated
CheckError ==
    /\ syncPc = "check_error"
    /\ IF error[syncCall]
       THEN SyncReturn(syncCall, "error_tone", TRUE)
       ELSE /\ syncPc' = "beep"
            /\ UNCHANGED <<file, syncResult>>
    /\ UNCHANGED <<sync_is_initialized, syncCall, syncText, thr, success, error, joinTimedOut>>
    /\ UNCHANGED SyncOthers

\* except TimeoutError: the beep is generated and returned; finally unlinks
\* the temporary file
BeepFallback ==
    /\ syncPc = "beep"
    /\ SyncReturn(syncCall, "beep", TRUE)
    /\ UNCHANGED <<sync_is_initialized, syncCall, syncText, thr, success, error, joinTimedOut>>
    /\ UNCHANGED SyncOthers

\* AudioSegment.from_mp3 and the conversion: the provider's audio; np.max of
\* an empty array raises, so no samples end in the error tone like any
\* other exception
Convert(outcome) ==
    /\ syncPc = "convert"
    /\ SyncReturn(syncCall, IF outcome = "audio" THEN "audio" ELSE "error_tone", TRUE)
    /\ UNCHANGED <<sync_is_initialized, syncCall, syncText, thr, success, error, joinTimedOut>>
    /\ UNCHANGED SyncOthers

SyncNext ==
    \/ \E g \in EnvOutcomes : SyncInitialize(g)
    \/ \E n \in TextLens : \E ctor \in {"ok", "raise"} : SyncStart(n, ctor)
    \/ \E c \in Calls : ThreadOpen(c)
    \/ \E c \in Calls : ThreadSave(c)
    \/ \E c \in Calls : ThreadSucceed(c)
    \/ \E c \in Calls : ThreadFail(c)
    \/ JoinReturn
    \/ JoinTimeout
    \/ CheckSuccess
    \/ CheckError
    \/ BeepFallback
    \/ \E o \in Outcomes : Convert(o)

----------------------------------------------------------------------------
(* The conversation loop: VietnameseVoiceChat.conversation_loop and the
   stages it awaits.  A stage is one await of a backend: the recording, the
   Whisper call, the chat-completion call, the synthesis, the playback. *)

\* the stages that await an external backend with no deadline of their own
BackendStages == {"transcribing", "replying", "synthesizing", "playing"}

\* the characters of the texts explored; the upper-case letters are written
\* as two-character strings
UpperOf ==
    [c \in {"b", "y", "e", "x", "i", "t", "q", "u", "h", "o", "á", "ạ", "m", "ệ", "a", "n",
            "k", "s", " ", "\n"} |->
        CASE c = "b" -> "B" [] c = "y" -> "Y" [] c = "e" -> "E" [] c = "x" -> "X"
          [] c = "i" -> "I" [] c = "t" -> "T" [] c = "q" -> "Q" [] c = "u" -> "U"
          [] c = "h" -> "H" [] c = "o" -> "O" [] c = "á" -> "Á" [] c = "ạ" -> "Ạ"
          [] c = "m" -> "M" [] c = "ệ" -> "Ệ" [] c = "a" -> "A" [] c = "n" -> "N"
          [] c = "k" -> "K" [] c = "s" -> "S" [] OTHER -> c]

LowerChars == DOMAIN UpperOf

\* str.lower() on one character
LowerOf(c) ==
    IF c \in LowerChars THEN c ELSE CHOOSE l \in LowerChars : UpperOf[l] = c

Whitespace == {" ", "\n"}

\* str.lower()
Lower(s) == [i \in 1..Len(s) |-> LowerOf(s[i])]

\* str.upper()
Upper(s) == [i \in 1..Len(s) |-> UpperOf[LowerOf(s[i])]]

\* str.capitalize() of a lower-case text
Capitalize(s) == [i \in 1..Len(s) |-> IF i = 1 THEN UpperOf[s[i]] ELSE s[i]]

\* str.lstrip(), str.rstrip(), str.strip()
RECURSIVE LStrip(_)
LStrip(s) == IF s # << >> /\ Head(s) \in Whitespace THEN LStrip(Tail(s)) ELSE s

RECURSIVE RStrip(_)
RStrip(s) ==
    IF s # << >> /\ s[Len(s)] \in Whitespace THEN RStrip(SubSeq(s, 1, Len(s) - 1)) ELSE s

Strip(s) == LStrip(RStrip(s))

\* ['thoát', 'exit', 'quit', 'bye', 'tạm biệt']
ExitPhrases ==
    { <<"t", "h", "o", "á", "t">>,
      <<"e", "x", "i", "t">>,
      <<"q", "u", "i", "t">>,
      <<"b", "y", "e">>,
      <<"t", "ạ", "m", " ", "b", "i", "ệ", "t">> }

\* ['', 'you', 'thank you', 'thanks']: texts Whisper returns for silence
Placeholders ==
    { << >>,
      <<"y", "o", "u">>,
      <<"t", "h", "a", "n", "k", " ", "y", "o", "u">>,
      <<"t", "h", "a", "n", "k", "s">> }

\* texts that are no exit phrase: a prefix of one, one said twice, another
\* word, a placeholder
OtherWords ==
    { <<"b", "y">>,
      <<"b", "y", "e", " ", "b", "y", "e">>,
      <<"h", "o", "i">>,
      <<"y", "o", "u">>,
      <<"t", "h", "a", "n", "k", " ", "y", "o", "u">>,
      <<"t", "h", "a", "n", "k", "s">> }

\* what the Whisper backend may return: the words in lower case, in upper
\* case and capitalised, bare or with leading and trailing whitespace, and
\* the empty and the blank text
Utterances ==
    LET words == ExitPhrases \cup OtherWords
        cased == UNION {{w, Upper(w), Capitalize(w)} : w \in words}
    IN  UNION {{w, <<" ">> \o w, w \o <<"\n">>, <<" ", "\n">> \o w \o <<" ">>} : w \in cased}
        \cup {<< >>, <<" ">>}

\* an exit test that compares the text as it is
IsExitVerbatim(text) == text \in ExitPhrases

\* user_input.lower().strip() in [...]
IsExit(text) == Strip(Lower(text)) \in ExitPhrases

\* a handler without its try/except: the exception leaves the stage
Unguarded(kind) == kind

\* the try/except Exception of process_voice_input, generate_response and
\* speak_response: an exception inside the stage becomes its failure result
Guarded(kind) == IF kind = "raise" THEN "none" ELSE kind

\* config.CHUNK_SIZE, samples in a frame
ChunkSize == 1024

\* config.SAMPLE_RATE
SampleRate == 16000

\* a transcribe_audio without the test of the duration
LongEnoughAlways(frames) == TRUE

\* duration = len(audio_data) / config.SAMPLE_RATE; duration < 0.1 is "Audio
\* too short": transcribe_audio reaches the Whisper call only with at least
\* 0.1 s of audio
LongEnough(frames) == Len(frames) * ChunkSize * 10 >= SampleRate

\* a transcribe_audio that returns whatever text is left after the strip
transcribe_audio_unfiltered(text) == Strip(text)

\* WhisperSTT.transcribe_audio on the backend's text: stripped, and None
\* (the empty text here) when nothing is left or a placeholder is
transcribe_audio(text) ==
    LET t == Strip(text)
    IN  IF t # << >> /\ Lower(t) \notin Placeholders THEN t ELSE << >>

\* a loop that plays whatever synthesize returned
AfterSynthAlwaysPlay(kind) == "playing"

\* speak_response: the audio is played when synthesize returned one
AfterSynth(kind) == IF kind = "audio" THEN "playing" ELSE "sleep_turn"

\* the results with which a turn has failed
Failures == {"no_audio", "stt_failed", "reply_failed", "synth_failed", "play_failed"}

\* messages[0]: the system instruction
SystemPrompt == [role |-> "system", content |-> 0]

\* a request without the system instruction
MessagesWithoutSystem(history) == history

\* messages = [system prompt]; messages.extend(self.conversation_history)
Messages(history) == <<SystemPrompt>> \o history

\* no answer of the Whisper backend in this turn
NoResponse == [kind |-> "none", text |-> << >>]

\* run(): initialize succeeded and is_running was set
LoopInit ==
    /\ is_running = TRUE
    /\ conversation_count = 0
    /\ loopPc = "top"
    /\ hung = FALSE
    /\ user_input = << >>
    /\ ai_response = "none"
    /\ speech = "none"
    /\ invoked = {}
    /\ turn_result = "none"
    /\ turn_base = 0
    /\ raised = {}
    /\ loop_error = FALSE
    /\ response = NoResponse
    /\ messages = << >>

\* while self.is_running: the next turn starts with process_voice_input,
\* which awaits record_with_vad; the loop ends when the flag is down
LoopTopWithin(turns) ==
    /\ loopPc = "top"
    /\ IF is_running
       THEN /\ conversation_count < turns
            /\ conversation_count' = conversation_count + 1
            /\ loopPc' = "recording"
            /\ invoked' = {"record"}
            /\ turn_result' = "none"
            /\ turn_base' = Len(appended)
            /\ user_input' = << >>
            /\ ai_response' = "none"
            /\ speech' = "none"
            /\ response' = NoResponse
            /\ messages' = << >>
       ELSE /\ loopPc' = "exited"
            /\ UNCHANGED <<conversation_count, invoked, turn_result, turn_base, user_input,
                           ai_response, speech, response, messages>>
    /\ UNCHANGED <<is_running, hung, raised, loop_error, histVars>>
    /\ UNCHANGED LoopOthers

LoopTop == LoopTopWithin(MaxTurns)

\* a stage let an exception through: conversation_loop logs it and ends
LoopRaised(stage) ==
    /\ loopPc' = "exited"
    /\ loop_error' = TRUE
    /\ raised' = raised \cup {stage}
    /\ turn_result' = "error"

\* record_with_vad returns: None is "No audio recorded", else the audio
\* goes to stt.transcribe_audio, which returns None at once for audio that
\* is empty or too short and calls the Whisper backend with any other
RecordReturn(audio) ==
    /\ loopPc = "recording"
    /\ IF audio.kind = "none"
       THEN /\ loopPc' = "sleep_noinput"
            /\ turn_result' = "no_audio"
            /\ UNCHANGED invoked
       ELSE IF audio.frames = << >> \/ ~LongEnough(audio.frames)
       THEN /\ loopPc' = "sleep_noinput"
            /\ turn_result' = "stt_failed"
            /\ invoked' = invoked \cup {"transcribe"}
       ELSE /\ loopPc' = "transcribing"
            /\ invoked' = invoked \cup {"transcribe", "whisper"}
            /\ UNCHANGED turn_result
    /\ UNCHANGED <<is_running, conversation_count, hung, user_input, ai_response, speech,
                   turn_base, raised, loop_error, histVars>>
    /\ UNCHANGED <<response, messages>>
    /\ UNCHANGED LoopOthers

\* the transcription stage ends: with the backend's text, or with an
\* exception.  No text is "No input detected"; an exit phrase ends the loop;
\* any other text goes to llm.generate_response, which appends it to the
\* history before calling the backend
TranscribeReturn(resp) ==
    /\ loopPc = "transcribing"
    /\ ~hung
    /\ response' = resp
    /\ LET text == IF resp.kind = "raise" THEN << >> ELSE transcribe_audio(resp.text)
           kind == Guarded(IF resp.kind = "raise" THEN "raise"
                           ELSE IF text = << >> THEN "none" ELSE "text")
       IN  IF kind = "raise"
           THEN /\ LoopRaised("transcribe")
                /\ UNCHANGED <<user_input, invoked, messages, histVars>>
           ELSE IF kind = "none"
           THEN /\ user_input' = << >>
                /\ loopPc' = "sleep_noinput"
                /\ turn_result' = "stt_failed"
                /\ raised' = IF resp.kind = "raise" THEN raised \cup {"transcribe"} ELSE raised
                /\ UNCHANGED <<invoked, loop_error, messages, histVars>>
           ELSE IF IsExit(text)
           THEN /\ user_input' = text
                /\ loopPc' = "exited"
                /\ turn_result' = "exit"
                /\ UNCHANGED <<invoked, raised, loop_error, messages, histVars>>
           ELSE /\ user_input' = text
                /\ loopPc' = "replying"
                /\ invoked' = invoked \cup {"reply"}
                /\ conversation_history' =
                       add_to_history(conversation_history, "user", Len(appended) + 1)
                /\ appended' = Append(appended, [role |-> "user", content |-> Len(appended) + 1])
                /\ messages' = Messages(conversation_history')
                /\ UNCHANGED <<turn_result, raised, loop_error>>
    /\ UNCHANGED <<is_running, conversation_count, hung, ai_response, speech, turn_base>>
    /\ UNCHANGED LoopOthers

\* the reply stage ends: a reply is appended to the history and goes to
\* speak_response; an empty reply or an exception is None and the loop
\* continues with the next turn
ReplyReturn(outcome) ==
    /\ loopPc = "replying"
    /\ ~hung
    /\ LET kind == Guarded(outcome)
       IN  IF kind = "raise"
           THEN /\ LoopRaised("reply")
                /\ UNCHANGED <<ai_response, invoked, histVars>>
           ELSE IF kind = "reply"
           THEN /\ ai_response' = "reply"
                /\ loopPc' = "synthesizing"
                /\ invoked' = invoked \cup {"synthesize"}
                /\ conversation_history' =
                       add_to_history(conversation_history, "assistant", Len(appended) + 1)
                /\ appended' =
                       Append(appended, [role |-> "assistant", content |-> Len(appended) + 1])
                /\ UNCHANGED <<turn_result, raised, loop_error>>
           ELSE /\ ai_response' = "none"
                /\ loopPc' = "top"
                /\ turn_result' = "reply_failed"
                /\ raised' = IF outcome = "raise" THEN raised \cup {"reply"} ELSE raised
                /\ UNCHANGED <<invoked, loop_error, histVars>>
    /\ UNCHANGED <<is_running, conversation_count, hung, user_input, speech, turn_base>>
    /\ UNCHANGED <<response, messages>>
    /\ UNCHANGED LoopOthers

\* tts.synthesize ends: audio goes to play_audio_async, None is "Failed to
\* synthesize speech"
SynthReturn(outcome) ==
    /\ loopPc = "synthesizing"
    /\ ~hung
    /\ LET kind == Guarded(outcome)
       IN  IF kind = "raise"
           THEN /\ LoopRaised("synthesize")
                /\ UNCHANGED <<speech, invoked>>
           ELSE /\ speech' = kind
                /\ loopPc' = AfterSynth(kind)
                /\ invoked' = IF AfterSynth(kind) = "playing"
                              THEN invoked \cup {"play"} ELSE invoked
                /\ turn_result' = IF AfterSynth(kind) = "playing"
                                  THEN turn_result ELSE "synth_failed"
                /\ raised' = IF outcome = "raise" THEN raised \cup {"synthesize"} ELSE raised
                /\ UNCHANGED loop_error
    /\ UNCHANGED <<is_running, conversation_count, hung, user_input, ai_response, turn_base,
                   histVars>>
    /\ UNCHANGED <<response, messages>>
    /\ UNCHANGED LoopOthers

\* play_audio_async ends: True, False, or with an exception
PlayReturn(outcome) ==
    /\ loopPc = "playing"
    /\ ~hung
    /\ LET kind == Guarded(outcome)
       IN  IF kind = "raise"
           THEN LoopRaised("play")
           ELSE /\ loopPc' = "sleep_turn"
                /\ turn_result' = IF kind = "True" THEN "ok" ELSE "play_failed"
                /\ raised' = IF outcome = "raise" THEN raised \cup {"play"} ELSE raised
                /\ UNCHANGED loop_error
    /\ UNCHANGED <<is_running, conversation_count, hung, user_input, ai_response, speech,
                   invoked, turn_base, histVars>>
    /\ UNCHANGED <<response, messages>>
    /\ UNCHANGED LoopOthers

\* asyncio.sleep(1) after no input, asyncio.sleep(0.5) after a turn
SleepDone ==
    /\ loopPc \in {"sleep_noinput", "sleep_turn"}
    /\ loopPc' = "top"
    /\ UNCHANGED <<is_running, conversation_count, hung, user_input, ai_response, speech,
                   invoked, turn_result, turn_base, raised, loop_error, histVars>>
    /\ UNCHANGED <<response, messages>>
    /\ UNCHANGED LoopOthers

\* the backend being awaited never returns; no stage sets a deadline
\* (asyncio.to_thread is awaited without wait_for, sd.wait() has none)
BackendHangs ==
    /\ loopPc \in BackendStages
    /\ ~hung
    /\ hung' = TRUE
    /\ UNCHANGED <<is_running, conversation_count, loopPc, user_input, ai_response, speech,
                   invoked, turn_result, turn_base, raised, loop_error, histVars>>
    /\ UNCHANGED <<response, messages>>
    /\ UNCHANGED LoopOthers

\* main.signal_handler: SIGINT lowers the flag
Interrupt ==
    /\ is_running
    /\ loopPc # "exited"
    /\ is_running' = FALSE
    /\ UNCHANGED <<conversation_count, loopPc, hung, user_input, ai_response, speech,
                   invoked, turn_result, turn_base, raised, loop_error, histVars>>
    /\ UNCHANGED <<response, messages>>
    /\ UNCHANGED LoopOthers

\* what record_with_vad may return: None, or one or two frames of audio
LoopAudios ==
    {[kind |-> "none", frames |-> << >>]}
        \cup {[kind |-> "audio", frames |-> [i \in 1..n |-> [seq |-> i, level |-> 0]]] :
                n \in 1..2}

\* what the Whisper call may do
SttResponses ==
    {[kind |-> "raise", text |-> << >>]} \cup {[kind |-> "text", text |-> u] : u \in Utterances}

\* the steps the loop itself takes
LoopProgress ==
    \/ LoopTop
    \/ \E a \in LoopAudios : RecordReturn(a)
    \/ \E r \in SttResponses : TranscribeReturn(r)
    \/ \E o \in {"reply", "none", "raise"} : ReplyReturn(o)
    \/ \E o \in {"audio", "none", "raise"} : SynthReturn(o)
    \/ \E o \in {"True", "False", "raise"} : PlayReturn(o)
    \/ SleepDone

LoopNext ==
    \/ LoopTop
    \/ \E a \in LoopAudios : RecordReturn(a)
    \/ \E r \in SttResponses : TranscribeReturn(r)
    \/ \E o \in {"reply", "none", "raise"} : ReplyReturn(o)
    \/ \E o \in {"audio", "none", "raise"} : SynthReturn(o)
    \/ \E o \in {"True", "False", "raise"} : PlayReturn(o)
    \/ SleepDone
    \/ BackendHangs
    \/ Interrupt

----------------------------------------------------------------------------
(* Recording: AudioHandler.start_recording, stop_recording, audio_callback
   and record_with_vad.  Time is counted in ticks of half a second; peak
   amplitudes in units of 0.01. *)

\* self.vad_threshold = 0.01
VadThreshold == 1

\* self.silence_duration = 1.0 seconds
SilenceDuration == 2

\* self.min_recording_duration = 0.5 seconds
MinRecording == 1

\* peak amplitudes of a frame: at the threshold, above it
Levels == {VadThreshold, VadThreshold + 1}

\* the max_duration a caller passes: 0.5 s, 2 s
MaxDurations == {1, 4}

NoAudio == [kind |-> "none", frames |-> << >>]

Pending == [kind |-> "pending", frames |-> << >>]

\* positions inside the while loop of record_with_vad
LoopPcs == {"top", "get", "check_silence", "check_min", "sleep"}

VadInit ==
    /\ is_recording = FALSE
    /\ recorded_frames = << >>
    /\ audio_queue = << >>
    /\ recording_stream = "none"
    /\ active_streams = 0
    /\ vadPc = "idle"
    /\ max_duration = 0
    /\ start_time = 0
    /\ last_voice_time = 0
    /\ recording_started = FALSE
    /\ now = 0
    /\ produced = 0
    /\ owner = "none"
    /\ vadResult = Pending
    /\ endReason = "none"
    /\ endedAt = 0
    /\ lastVoicedAt = 0
    /\ detector = "Idle"
    /\ rearmed = FALSE
    /\ rejected = 0
    /\ last_start = FALSE
    /\ stt_input = Pending
    /\ whisper_called = FALSE
    /\ session_base = 0

\* start_recording without the "Already recording" test
start_recording_unguarded(open) ==
    IF open = "ok"
    THEN [ret |-> TRUE, is_recording |-> TRUE, recorded_frames |-> << >>,
          audio_queue |-> << >>, recording_stream |-> "active",
          active_streams |-> active_streams + 1]
    ELSE [ret |-> FALSE, is_recording |-> FALSE, recorded_frames |-> << >>,
          audio_queue |-> << >>, recording_stream |-> recording_stream,
          active_streams |-> active_streams]

\* a start_recording whose except branch leaves the flag up
start_recording_flag_left_up(open) ==
    IF is_recording
    THEN [ret |-> FALSE, is_recording |-> is_recording, recorded_frames |-> recorded_frames,
          audio_queue |-> audio_queue, recording_stream |-> recording_stream,
          active_streams |-> active_streams]
    ELSE IF open = "ok"
         THEN [ret |-> TRUE, is_recording |-> TRUE, recorded_frames |-> << >>,
               audio_queue |-> << >>, recording_stream |-> "active",
               active_streams |-> active_streams + 1]
         ELSE [ret |-> FALSE, is_recording |-> TRUE, recorded_frames |-> << >>,
               audio_queue |-> << >>, recording_stream |-> recording_stream,
               active_streams |-> active_streams]

\* start_recording: False when already recording, with nothing touched; else
\* the flag is raised, the frames and the queue are cleared and the input
\* stream is opened and started; when that raises the flag is lowered again
start_recording(open) ==
    IF is_recording
    THEN [ret |-> FALSE, is_recording |-> is_recording, recorded_frames |-> recorded_frames,
          audio_queue |-> audio_queue, recording_stream |-> recording_stream,
          active_streams |-> active_streams]
    ELSE IF open = "ok"
         THEN [ret |-> TRUE, is_recording |-> TRUE, recorded_frames |-> << >>,
               audio_queue |-> << >>, recording_stream |-> "active",
               active_streams |-> active_streams + 1]
         ELSE [ret |-> FALSE, is_recording |-> FALSE, recorded_frames |-> << >>,
               audio_queue |-> << >>, recording_stream |-> recording_stream,
               active_streams |-> active_streams]

SetHandler(h) ==
    /\ is_recording' = h.is_recording
    /\ recorded_frames' = h.recorded_frames
    /\ audio_queue' = h.audio_queue
    /\ recording_stream' = h.recording_stream
    /\ active_streams' = h.active_streams

\* a stop_recording that returns the frames and leaves everything as it is
stop_recording_keeps_recording ==
    LET frames == recorded_frames \o audio_queue
    IN  [ret |-> IF frames # << >> THEN [kind |-> "audio", frames |-> frames] ELSE NoAudio,
         is_recording |-> is_recording, recorded_frames |-> frames, audio_queue |-> << >>,
         recording_stream |-> recording_stream, active_streams |-> active_streams]

\* a stop_recording that returns the frames taken so far and forgets the queue
stop_recording_without_drain ==
    IF ~is_recording
    THEN [ret |-> NoAudio, is_recording |-> is_recording, recorded_frames |-> recorded_frames,
          audio_queue |-> audio_queue, recording_stream |-> recording_stream,
          active_streams |-> active_streams]
    ELSE LET frames == recorded_frames
         IN  [ret |-> IF frames # << >> THEN [kind |-> "audio", frames |-> frames] ELSE NoAudio,
              is_recording |-> FALSE, recorded_frames |-> frames, audio_queue |-> << >>,
              recording_stream |-> IF recording_stream = "none" THEN "none" ELSE "stopped",
              active_streams |-> IF recording_stream = "active"
                                 THEN active_streams - 1 ELSE active_streams]

\* stop_recording: None when not recording; else the flag is lowered, the
\* stream stopped and closed, the queue drained into the frames, and the
\* frames returned, None when there are none
stop_recording ==
    IF ~is_recording
    THEN [ret |-> NoAudio, is_recording |-> is_recording, recorded_frames |-> recorded_frames,
          audio_queue |-> audio_queue, recording_stream |-> recording_stream,
          active_streams |-> active_streams]
    ELSE LET frames == recorded_frames \o audio_queue
         IN  [ret |-> IF frames # << >> THEN [kind |-> "audio", frames |-> frames] ELSE NoAudio,
              is_recording |-> FALSE, recorded_frames |-> frames, audio_queue |-> << >>,
              recording_stream |-> IF recording_stream = "none" THEN "none" ELSE "stopped",
              active_streams |-> IF recording_stream = "active"
                                 THEN active_streams - 1 ELSE active_streams]

\* queue.Queue(): maxsize 0, the queue has no limit
QueueMaxsize == 0

\* Queue.put returns at once unless the queue has a limit and has reached it
PutReturns(q) == QueueMaxsize <= 0 \/ Len(q) < QueueMaxsize

\* audio_callback on the stream's thread: a frame is put on the queue while
\* the flag is up
AudioCallback(level) ==
    /\ active_streams > 0
    /\ is_recording
    /\ PutReturns(audio_queue)
    /\ produced < MaxFrames
    /\ produced' = produced + 1
    /\ audio_queue' = Append(audio_queue, [seq |-> produced + 1, level |-> level])
    /\ UNCHANGED <<is_recording, recorded_frames, recording_stream, active_streams>>
    /\ UNCHANGED <<localVars, sessionVars, vadPc, now, owner, vadResult, callVars>>
    /\ UNCHANGED VadOthers

\* time passes while record_with_vad runs
Tick ==
    /\ vadPc \in LoopPcs
    /\ now < MaxTime
    /\ now' = now + 1
    /\ UNCHANGED <<handlerVars, localVars, sessionVars, vadPc, produced, owner, vadResult,
                   callVars>>
    /\ UNCHANGED VadOthers

\* another client of the handler calls start_recording
OtherStart(open) ==
    /\ owner # "other"
    /\ is_recording => rejected < MaxRejected
    /\ LET h == start_recording(open)
       IN  /\ SetHandler(h)
           /\ owner' = IF h.ret THEN "other" ELSE owner
           /\ last_start' = h.ret
           /\ rejected' = IF is_recording THEN rejected + 1 ELSE rejected
    /\ UNCHANGED <<localVars, sessionVars, vadPc, now, produced, vadResult, stt_input,
                   whisper_called, session_base>>
    /\ UNCHANGED VadOthers

\* the other client stops the recording it started
OtherStop ==
    /\ owner = "other"
    /\ SetHandler(stop_recording)
    /\ owner' = "none"
    /\ UNCHANGED <<localVars, sessionVars, vadPc, now, produced, vadResult, callVars>>
    /\ UNCHANGED VadOthers

\* record_with_vad up to the loop: None when start_recording fails, else the
\* locals are set
VadStart(maxd, open) ==
    /\ vadPc = "idle"
    /\ max_duration' = maxd
    /\ LET h == start_recording(open)
       IN  /\ SetHandler(h)
           /\ last_start' = h.ret
           /\ rejected' = IF is_recording THEN rejected + 1 ELSE rejected
           /\ IF h.ret
              THEN /\ vadPc' = "top"
                   /\ owner' = "vad"
                   /\ start_time' = now
                   /\ last_voice_time' = now
                   /\ recording_started' = FALSE
                   /\ detector' = "Listening"
                   /\ UNCHANGED vadResult
              ELSE /\ vadPc' = "returned"
                   /\ vadResult' = NoAudio
                   /\ UNCHANGED <<owner, start_time, last_voice_time, recording_started, detector>>
    /\ session_base' = produced
    /\ UNCHANGED <<endReason, endedAt, lastVoicedAt, rearmed, now, produced, stt_input,
                   whisper_called>>
    /\ UNCHANGED VadOthers

\* a timeout test that compares against the wrong budget
TimedOutNever == now - start_time > max_duration + MaxTime

\* the timeout test at the top of the loop
TimedOut == now - start_time > max_duration

\* while self.is_recording: if time.time() - start_time > max_duration: break
VadTop ==
    /\ vadPc = "top"
    /\ IF ~is_recording
       THEN /\ vadPc' = "stop"
            /\ endReason' = "flag"
            /\ endedAt' = now
       ELSE IF TimedOut
            THEN /\ vadPc' = "stop"
                 /\ endReason' = "timeout"
                 /\ endedAt' = now
            ELSE /\ vadPc' = "get"
                 /\ UNCHANGED <<endReason, endedAt>>
    /\ UNCHANGED <<handlerVars, localVars, lastVoicedAt, detector, rearmed, now, produced,
                   owner, vadResult, callVars>>
    /\ UNCHANGED VadOthers

\* audio_level > self.vad_threshold
IsVoiced(frame) == frame.level > VadThreshold

\* a timer armed by the first voiced frame only
NewLastVoiceTimeFirstOnly(frame) ==
    IF IsVoiced(frame) /\ ~recording_started THEN now ELSE last_voice_time

\* last_voice_time after a frame: re-armed by every voiced frame
NewLastVoiceTime(frame) == IF IsVoiced(frame) THEN now ELSE last_voice_time

\* audio_queue.get(timeout=0.1) delivers a frame: it is appended, and a
\* voiced frame sets last_voice_time and recording_started
VadGetFrame ==
    /\ vadPc = "get"
    /\ audio_queue # << >>
    /\ LET frame == Head(audio_queue)
       IN  /\ audio_queue' = Tail(audio_queue)
           /\ recorded_frames' = Append(recorded_frames, frame)
           /\ last_voice_time' = NewLastVoiceTime(frame)
           /\ recording_started' = (recording_started \/ IsVoiced(frame))
           /\ vadPc' = IF recording_started \/ IsVoiced(frame) THEN "check_silence" ELSE "sleep"
           /\ lastVoicedAt' = IF frame.level > VadThreshold THEN now ELSE lastVoicedAt
           /\ detector' = IF frame.level > VadThreshold THEN "Voiced"
                           ELSE IF detector = "Listening" THEN "Listening" ELSE "TrailingSilence"
           /\ rearmed' = (rearmed \/ (detector = "TrailingSilence" /\ frame.level > VadThreshold))
    /\ UNCHANGED <<is_recording, recording_stream, active_streams, max_duration, start_time>>
    /\ UNCHANGED <<endReason, endedAt, now, produced, owner, vadResult, callVars>>
    /\ UNCHANGED VadOthers

\* audio_queue.get(timeout=0.1) raises queue.Empty: continue
VadGetEmpty ==
    /\ vadPc = "get"
    /\ audio_queue = << >>
    /\ vadPc' = "top"
    /\ UNCHANGED <<handlerVars, localVars, sessionVars, now, produced, owner, vadResult,
                   callVars>>
    /\ UNCHANGED VadOthers

\* a silence test against the wrong budget
SilenceElapsedWrongBudget == now - last_voice_time > MinRecording

\* silence_duration > self.silence_duration
SilenceElapsed == now - last_voice_time > SilenceDuration

\* if recording_started: silence_duration = time.time() - last_voice_time
VadCheckSilence ==
    /\ vadPc = "check_silence"
    /\ vadPc' = IF SilenceElapsed THEN "check_min" ELSE "sleep"
    /\ UNCHANGED <<handlerVars, localVars, sessionVars, now, produced, owner, vadResult,
                   callVars>>
    /\ UNCHANGED VadOthers

\* total_duration = time.time() - start_time; break when it has reached
\* self.min_recording_duration
VadCheckMin ==
    /\ vadPc = "check_min"
    /\ IF now - start_time >= MinRecording
       THEN /\ vadPc' = "stop"
            /\ endReason' = "silence"
            /\ endedAt' = now
       ELSE /\ vadPc' = "sleep"
            /\ UNCHANGED <<endReason, endedAt>>
    /\ UNCHANGED <<handlerVars, localVars, lastVoicedAt, detector, rearmed, now, produced,
                   owner, vadResult, callVars>>
    /\ UNCHANGED VadOthers

\* await asyncio.sleep(0.01)
VadSleep ==
    /\ vadPc = "sleep"
    /\ vadPc' = "top"
    /\ UNCHANGED <<handlerVars, localVars, sessionVars, now, produced, owner, vadResult,
                   callVars>>
    /\ UNCHANGED VadOthers

\* return self.stop_recording()
VadStop ==
    /\ vadPc = "stop"
    /\ LET h == stop_recording
       IN  /\ SetHandler(h)
           /\ vadResult' = h.ret
    /\ vadPc' = "returned"
    /\ owner' = "none"
    /\ UNCHANGED <<localVars, sessionVars, now, produced, callVars>>
    /\ UNCHANGED VadOthers

\* an exception inside the loop: except Exception calls stop_recording and
\* returns None
VadRaise ==
    /\ vadPc \in LoopPcs
    /\ SetHandler(stop_recording)
    /\ vadResult' = NoAudio
    /\ vadPc' = "returned"
    /\ owner' = "none"
    /\ endReason' = "error"
    /\ endedAt' = now
    /\ UNCHANGED <<localVars, lastVoicedAt, detector, rearmed, now, produced, callVars>>
    /\ UNCHANGED VadOthers

\* process_voice_input: None without transcription when no audio was
\* recorded, else the audio goes to stt.transcribe_audio
ProcessVoiceInput ==
    /\ vadPc = "returned"
    /\ stt_input = Pending
    /\ stt_input' = vadResult
    /\ whisper_called' = (vadResult.kind = "audio" /\ LongEnough(vadResult.frames))
    /\ UNCHANGED <<handlerVars, localVars, sessionVars, vadPc, now, produced, owner, vadResult,
                   rejected, last_start, session_base>>
    /\ UNCHANGED VadOthers

\* the steps of record_with_vad inside and after its loop
VadStep ==
    \/ VadTop
    \/ VadGetFrame
    \/ VadGetEmpty
    \/ VadCheckSilence
    \/ VadCheckMin
    \/ VadSleep
    \/ VadStop

VadNext ==
    \/ \E l \in Levels : AudioCallback(l)
    \/ Tick
    \/ \E o \in EnvOutcomes : OtherStart(o)
    \/ OtherStop
    \/ \E d \in MaxDurations : \E o \in EnvOutcomes : VadStart(d, o)
    \/ VadTop
    \/ VadGetFrame
    \/ VadGetEmpty
    \/ VadCheckSilence
    \/ VadCheckMin
    \/ VadSleep
    \/ VadStop
    \/ VadRaise
    \/ ProcessVoiceInput

----------------------------------------------------------------------------
(* Playback: AudioHandler.play_audio, called on worker threads by
   play_audio_async (asyncio.to_thread).  The statements of play_audio run
   one at a time; another thread may run between any two of them. *)

\* the threads that call play_audio
Players == {"p1", "p2", "p3"}

\* positions of a play_audio call between raising and lowering is_playing
Active == {"flagged", "waiting"}

PlayInit ==
    /\ is_playing = FALSE
    /\ playPc = [t \in Players |-> "idle"]
    /\ playRet = [t \in Players |-> "none"]
    /\ plays = 0

\* if self.is_playing: return False
PlayCheck(t) ==
    /\ playPc[t] = "idle"
    /\ plays < MaxPlays
    /\ plays' = plays + 1
    /\ IF is_playing
       THEN /\ playPc' = [playPc EXCEPT ![t] = "returned"]
            /\ playRet' = [playRet EXCEPT ![t] = "False"]
       ELSE /\ playPc' = [playPc EXCEPT ![t] = "checked"]
            /\ playRet' = [playRet EXCEPT ![t] = "none"]
    /\ UNCHANGED is_playing
    /\ UNCHANGED PlayOthers

\* self.is_playing = True
PlaySet(t) ==
    /\ playPc[t] = "checked"
    /\ is_playing' = TRUE
    /\ playPc' = [playPc EXCEPT ![t] = "flagged"]
    /\ UNCHANGED <<playRet, plays>>
    /\ UNCHANGED PlayOthers

\* the conversion, the normalisation and sd.play: the playback starts, or
\* one of them raises, the flag is lowered and False returned
PlayDevice(t, outcome) ==
    /\ playPc[t] = "flagged"
    /\ IF outcome = "ok"
       THEN /\ playPc' = [playPc EXCEPT ![t] = "waiting"]
            /\ UNCHANGED <<is_playing, playRet>>
       ELSE /\ playPc' = [playPc EXCEPT ![t] = "returned"]
            /\ playRet' = [playRet EXCEPT ![t] = "False"]
            /\ is_playing' = FALSE
    /\ UNCHANGED plays
    /\ UNCHANGED PlayOthers

\* sd.wait() returns: the flag is lowered and True returned
PlayWaitDone(t) ==
    /\ playPc[t] = "waiting"
    /\ is_playing' = FALSE
    /\ playPc' = [playPc EXCEPT ![t] = "returned"]
    /\ playRet' = [playRet EXCEPT ![t] = "True"]
    /\ UNCHANGED plays
    /\ UNCHANGED PlayOthers

\* the thread is handed the next play_audio call
PlayAgain(t) ==
    /\ playPc[t] = "returned"
    /\ playPc' = [playPc EXCEPT ![t] = "idle"]
    /\ UNCHANGED <<is_playing, playRet, plays>>
    /\ UNCHANGED PlayOthers

PlayNext ==
    \/ \E t \in Players : PlayCheck(t)
    \/ \E t \in Players : PlaySet(t)
    \/ \E t \in Players : \E o \in EnvOutcomes : PlayDevice(t, o)
    \/ \E t \in Players : PlayWaitDone(t)
    \/ \E t \in Players : PlayAgain(t)

(* stop_playback and cleanup (audio_handler.py 249-265) run in a thread of
   their own while play_audio calls are under way.  sd.stop() ends the
   playback on the device, so the sd.wait() of a playing thread returns. *)

StopInit ==
    /\ stopPc = "idle"
    /\ stops = 0

\* stop_playback up to sd.stop(), called directly or by cleanup after its
\* stop_recording(); an exception of sd.stop() is logged and the call returns
StopDevice(via, outcome) ==
    /\ stopPc = "idle"
    /\ stops < MaxStops
    /\ stops' = stops + 1
    /\ IF via = "cleanup"
       THEN SetHandler(stop_recording)
       ELSE UNCHANGED handlerVars
    /\ IF outcome = "ok"
       THEN /\ playPc' = [t \in Players |->
                             IF playPc[t] = "waiting" THEN "stopped" ELSE playPc[t]]
            /\ stopPc' = "flag"
       ELSE UNCHANGED <<playPc, stopPc>>
    /\ UNCHANGED <<is_playing, playRet, plays>>
    /\ UNCHANGED <<localVars, sessionVars, vadPc, now, produced, owner, vadResult, callVars>>
    /\ UNCHANGED StopOthers

\* self.is_playing = False of stop_playback
StopFlag ==
    /\ stopPc = "flag"
    /\ is_playing' = FALSE
    /\ stopPc' = "idle"
    /\ UNCHANGED <<playPc, playRet, plays, stops, vadVars>>
    /\ UNCHANGED StopOthers

\* sd.wait() of a playback that sd.stop() ended returns: the flag is lowered
\* and True returned
PlayWaitStopped(t) ==
    /\ playPc[t] = "stopped"
    /\ is_playing' = FALSE
    /\ playPc' = [playPc EXCEPT ![t] = "returned"]
    /\ playRet' = [playRet EXCEPT ![t] = "True"]
    /\ UNCHANGED plays
    /\ UNCHANGED PlayOthers

StopNext ==
    \/ PlayNext
    \/ \E via \in {"stop_playback", "cleanup"} : \E o \in EnvOutcomes : StopDevice(via, o)
    \/ StopFlag
    \/ \E t \in Players : PlayWaitStopped(t)

----------------------------------------------------------------------------
(* Uploads: the /api/voice-chat handlers of app.py, app_agents.py and
   app_realtime.py and their convert_audio_to_numpy.  app_agents.py has the
   conversion and the responses of app.py. *)

Apps == {"app", "agents", "realtime"}

\* target_sample_rate=16000, the default the handlers use
TargetSampleRate == 16000

\* native sample rates of uploaded files
Rates == {8000, TargetSampleRate, 44100}

\* peak amplitudes of uploaded files, in percent of full scale: digital
\* silence and half scale
Peaks == {0, 50}

\* an uploaded file
Blobs == [ext : {".wav", ".webm"}, rate : Rates, channels : {1, 2}, peak : Peaks]

\* what the decoders do: ffmpeg converts, exits with an error, or cannot be
\* launched; pydub converts or raises; sf.read reads the file or raises
Envs == [ffmpeg : {"ok", "error", "missing"}, pydub : {"ok", "fail"}, read : {"ok", "fail"}]

NoBuffer == [kind |-> "none", rate |-> 0, channels |-> 0, ops |-> {}]

NoBlob == [ext |-> "", rate |-> 0, channels |-> 0, peak |-> 0]

NoEnv == [ffmpeg |-> "", pydub |-> "", read |-> ""]

\* the 'error' strings of the responses
DecodeError == "Failed to process audio file"

SttError(app) ==
    IF app # "realtime" THEN "Could not transcribe audio. Please speak clearly in Vietnamese."
    ELSE "Could not transcribe speech"

LlmError(app) ==
    IF app # "realtime" THEN "Could not generate AI response" ELSE "Could not generate response"

TtsError == "Could not generate speech"

UpInit ==
    /\ upApp = "none"
    /\ upBlob = NoBlob
    /\ upEnv = NoEnv
    /\ upPc = "idle"
    /\ upTried = << >>
    /\ upBuffer = NoBuffer
    /\ upInvoked = {}
    /\ upError = ""
    /\ uploads = 0

\* a request with an audio file arrives; convert_audio_to_numpy is called
UploadStart(app, blob, env) ==
    /\ upPc \in {"idle", "done"}
    /\ uploads < MaxUploads
    /\ uploads' = uploads + 1
    /\ upApp' = app
    /\ upBlob' = blob
    /\ upEnv' = env
    /\ upPc' = "convert"
    /\ upTried' = << >>
    /\ upBuffer' = NoBuffer
    /\ upInvoked' = {}
    /\ upError' = ""
    /\ UNCHANGED UpOthers

\* if file_ext not in ['.wav']: subprocess.run(ffmpeg ...).  A return code
\* other than 0 leads to pydub; when ffmpeg cannot be launched
\* subprocess.run raises and the outer handler returns None
ConvertFfmpeg ==
    /\ upPc = "convert"
    /\ upBlob.ext # ".wav"
    /\ upTried' = Append(upTried, "ffmpeg")
    /\ upPc' = CASE upEnv.ffmpeg = "ok" -> "read"
               [] upEnv.ffmpeg = "error" -> "pydub"
               [] OTHER -> "converted"
    /\ UNCHANGED <<upApp, upBlob, upEnv, upBuffer, upInvoked, upError, uploads>>
    /\ UNCHANGED UpOthers

\* AudioSegment.from_file(...).set_frame_rate(...).set_channels(1).export(...)
ConvertPydub ==
    /\ upPc = "pydub"
    /\ upTried' = Append(upTried, "pydub")
    /\ upPc' = IF upEnv.pydub = "ok" THEN "read" ELSE "converted"
    /\ UNCHANGED <<upApp, upBlob, upEnv, upBuffer, upInvoked, upError, uploads>>
    /\ UNCHANGED UpOthers

\* a .wav upload is read as it is (app.py) or copied and then read
\* (app_realtime.py)
ConvertWav ==
    /\ upPc = "convert"
    /\ upBlob.ext = ".wav"
    /\ upPc' = "read"
    /\ UNCHANGED <<upApp, upBlob, upEnv, upTried, upBuffer, upInvoked, upError, uploads>>
    /\ UNCHANGED UpOthers

\* what sf.read finds in the file: the output of a decoder is mono at the
\* target rate, an uploaded .wav has its own rate and channels; ops are the
\* operations applied to the samples since they were read
FileRead ==
    IF upTried # << >>
    THEN [kind |-> "audio", rate |-> TargetSampleRate, channels |-> 1, ops |-> {}]
    ELSE [kind |-> "audio", rate |-> upBlob.rate, channels |-> upBlob.channels, ops |-> {}]

\* after sf.read: app.py and app_agents.py average the channels of a stereo
\* file and resample one that is not at the target rate; app_realtime.py
\* scales the samples to a peak of 0.9 unless they are all zero.  The
\* conversion to float32 keeps the values
PostProcess(app, data, peak) ==
    IF app # "realtime"
    THEN [kind |-> "audio", rate |-> TargetSampleRate, channels |-> 1,
          ops |-> (IF data.channels > 1 THEN {"mean"} ELSE {})
                      \cup (IF data.rate # TargetSampleRate THEN {"resample"} ELSE {})]
    ELSE [data EXCEPT !.ops = IF peak > 0 THEN {"scale"} ELSE {}]

\* sf.read and what follows it; an unreadable file raises and None is returned
ConvertRead ==
    /\ upPc = "read"
    /\ upBuffer' = IF upTried = << >> /\ upEnv.read = "fail"
                   THEN NoBuffer
                   ELSE PostProcess(upApp, FileRead, upBlob.peak)
    /\ upPc' = "converted"
    /\ UNCHANGED <<upApp, upBlob, upEnv, upTried, upInvoked, upError, uploads>>
    /\ UNCHANGED UpOthers

\* a handler that passes on whatever the conversion returned
DecodeFailedNever(buffer) == FALSE

\* if audio_data is None
DecodeFailed(buffer) == buffer.kind = "none"

\* the handler after the conversion: 'Failed to process audio file', or on
\* to stt.transcribe_audio
HandlerCheck ==
    /\ upPc = "converted"
    /\ IF DecodeFailed(upBuffer)
       THEN /\ upError' = DecodeError
            /\ upPc' = "done"
            /\ UNCHANGED upInvoked
       ELSE /\ upPc' = "stt"
            /\ upInvoked' = upInvoked \cup {"stt"}
            /\ UNCHANGED upError
    /\ UNCHANGED <<upApp, upBlob, upEnv, upTried, upBuffer, uploads>>
    /\ UNCHANGED UpOthers

\* stt.transcribe_audio returns
HandlerStt(outcome) ==
    /\ upPc = "stt"
    /\ IF outcome = "text"
       THEN /\ upPc' = "llm"
            /\ upInvoked' = upInvoked \cup {"llm"}
            /\ UNCHANGED upError
       ELSE /\ upPc' = "done"
            /\ upError' = SttError(upApp)
            /\ UNCHANGED upInvoked
    /\ UNCHANGED <<upApp, upBlob, upEnv, upTried, upBuffer, uploads>>
    /\ UNCHANGED UpOthers

\* llm.generate_response (route_to_agent in app_agents.py) returns; app.py
\* and app_agents.py synthesize only when tts is initialised,
\* app_realtime.py always
HandlerLlm(outcome, tts_ready) ==
    /\ upPc = "llm"
    /\ IF outcome # "reply"
       THEN /\ upPc' = "done"
            /\ upError' = LlmError(upApp)
            /\ UNCHANGED upInvoked
       ELSE IF upApp # "realtime" /\ ~tts_ready
       THEN /\ upPc' = "done"
            /\ UNCHANGED <<upError, upInvoked>>
       ELSE /\ upPc' = "tts"
            /\ upInvoked' = upInvoked \cup {"tts"}
            /\ UNCHANGED upError
    /\ UNCHANGED <<upApp, upBlob, upEnv, upTried, upBuffer, uploads>>
    /\ UNCHANGED UpOthers

\* tts.synthesize returns: without audio app.py and app_agents.py answer
\* with the text only, app_realtime.py with 'Could not generate speech'
HandlerTts(outcome) ==
    /\ upPc = "tts"
    /\ upPc' = "done"
    /\ upError' = IF outcome = "none" /\ upApp = "realtime" THEN TtsError ELSE upError
    /\ UNCHANGED <<upApp, upBlob, upEnv, upTried, upBuffer, upInvoked, uploads>>
    /\ UNCHANGED UpOthers

UpNext ==
    \/ \E a \in Apps : \E b \in Blobs : \E e \in Envs : UploadStart(a, b, e)
    \/ ConvertFfmpeg
    \/ ConvertPydub
    \/ ConvertWav
    \/ ConvertRead
    \/ HandlerCheck
    \/ \E o \in {"text", "none"} : HandlerStt(o)
    \/ \E o \in {"reply", "none"} : \E t \in BOOLEAN : HandlerLlm(o, t)
    \/ \E o \in {"audio", "none"} : HandlerTts(o)

----------------------------------------------------------------------------
(* Audio files: the handlers write the synthesized audio to
   <tempdir>/<prefix><audio_id>.wav and answer with /api/audio/<audio_id>;
   serve_audio sends the file of an id. *)

\* str(uuid.uuid4()) of the responses
AudioIds == {"a1", "a2", "a3"}

\* an id that fails the isalnum test of app.py and app_agents.py
InvalidId == "../a1"

ArtInit ==
    /\ audio_files = {}
    /\ serves = [id \in AudioIds |-> 0]
    /\ serve_status = 0

\* sf.write(audio_path, ...) under a fresh uuid
StoreAudio(id) ==
    /\ id \notin audio_files
    /\ audio_files' = audio_files \cup {id}
    /\ UNCHANGED <<serves, serve_status>>
    /\ UNCHANGED ArtOthers

\* serve_audio: 400 for an invalid id (not in app_realtime.py), send_file
\* when the file exists, else 404; the file stays where it is
ServeAudio(app, id) ==
    /\ IF app # "realtime" /\ id = InvalidId
       THEN /\ serve_status' = 400
            /\ UNCHANGED serves
       ELSE IF id \in audio_files
       THEN /\ serves[id] < MaxServes
            /\ serve_status' = 200
            /\ serves' = [serves EXCEPT ![id] = @ + 1]
       ELSE /\ serve_status' = 404
            /\ UNCHANGED serves
    /\ UNCHANGED audio_files
    /\ UNCHANGED ArtOthers

ArtNext ==
    \/ \E id \in AudioIds : StoreAudio(id)
    \/ \E a \in Apps : \E id \in AudioIds \cup {InvalidId} : ServeAudio(a, id)

----------------------------------------------------------------------------
(* A session: conversation_loop with the recording and the playback of its
   AudioHandler.  The transcription, the reply and the synthesis stay calls
   to a backend. *)

\* config.MAX_AUDIO_LENGTH as set by the environment: 2 seconds, in ticks
MaxAudioLength == 4

\* the worker thread on which the loop's play_audio_async runs play_audio
LoopPlayer == "p1"

\* the next turn starts once the calls of the previous turn are over
TurnTop ==
    /\ vadPc = "idle"
    /\ playPc[LoopPlayer] = "idle"
    /\ LoopTop

\* process_voice_input calls record_with_vad(max_duration=config.MAX_AUDIO_LENGTH)
TurnRecordStart(open) ==
    /\ loopPc = "recording"
    /\ VadStart(MaxAudioLength, open)

\* record_with_vad has returned to process_voice_input
TurnRecordReturn ==
    /\ vadPc = "returned"
    /\ RecordReturn(vadResult)

\* the call of record_with_vad is over: its locals are gone
TurnRecordOver ==
    /\ vadPc = "returned"
    /\ loopPc # "recording"
    /\ vadPc' = "idle"
    /\ vadResult' = Pending
    /\ endReason' = "none"
    /\ endedAt' = 0
    /\ lastVoicedAt' = 0
    /\ detector' = "Idle"
    /\ rearmed' = FALSE
    /\ max_duration' = 0
    /\ start_time' = 0
    /\ last_voice_time' = 0
    /\ recording_started' = FALSE
    /\ UNCHANGED <<handlerVars, now, produced, owner, callVars>>
    /\ UNCHANGED VadOthers

\* the texts the Whisper backend returns in a session: nothing, an exit
\* phrase, another word; or it raises
TurnSttResponses ==
    {r \in SttResponses : r.text \in {<< >>, <<"B", "y", "e">>, <<"h", "o", "i">>}}

\* the transcription of the recorded audio ends
TurnTranscribeReturn(resp) ==
    /\ vadPc = "idle"
    /\ TranscribeReturn(resp)

\* the sleep at the end of the turn ends
TurnSleepDone ==
    /\ vadPc = "idle"
    /\ playPc[LoopPlayer] = "idle"
    /\ SleepDone

\* speak_response calls play_audio_async with the synthesized audio
TurnPlayStart ==
    /\ loopPc = "playing"
    /\ PlayCheck(LoopPlayer)

\* play_audio_async has returned to speak_response
TurnPlayReturn ==
    /\ playPc[LoopPlayer] = "returned"
    /\ PlayReturn(playRet[LoopPlayer])

\* the worker thread is free again
TurnPlayOver ==
    /\ loopPc # "playing"
    /\ PlayAgain(LoopPlayer)

\* the steps that take the loop from the end of a turn to the next one
TurnContinues ==
    \/ TurnRecordOver
    \/ TurnPlayOver
    \/ TurnSleepDone
    \/ TurnTop

TurnNext ==
    \/ TurnTop
    \/ \E o \in EnvOutcomes : TurnRecordStart(o)
    \/ \E l \in Levels : AudioCallback(l)
    \/ Tick
    \/ VadTop
    \/ VadGetFrame
    \/ VadGetEmpty
    \/ VadCheckSilence
    \/ VadCheckMin
    \/ VadSleep
    \/ VadStop
    \/ VadRaise
    \/ TurnRecordReturn
    \/ TurnRecordOver
    \/ \E r \in TurnSttResponses : TurnTranscribeReturn(r)
    \/ \E o \in {"reply", "none", "raise"} : ReplyReturn(o)
    \/ \E o \in {"audio", "none", "raise"} : SynthReturn(o)
    \/ TurnPlayStart
    \/ PlaySet(LoopPlayer)
    \/ \E o \in EnvOutcomes : PlayDevice(LoopPlayer, o)
    \/ PlayWaitDone(LoopPlayer)
    \/ TurnPlayReturn
    \/ TurnPlayOver
    \/ TurnSleepDone
    \/ Interrupt

----------------------------------------------------------------------------
(* A long conversation: conversation_loop over enough turns for the history
   to reach its cap, with few different utterances. *)

ChatTop == LoopTopWithin(MaxChatTurns)

\* record_with_vad returned two frames of audio
ChatAudio == [kind |-> "audio", frames |-> [i \in 1..2 |-> [seq |-> i, level |-> 0]]]

ChatNext ==
    \/ ChatTop
    \/ RecordReturn(ChatAudio)
    \/ \E r \in TurnSttResponses : TranscribeReturn(r)
    \/ \E o \in {"reply", "none", "raise"} : ReplyReturn(o)
    \/ \E o \in {"audio", "none"} : SynthReturn(o)
    \/ PlayReturn("True")
    \/ SleepDone

----------------------------------------------------------------------------
(* Upload turns running at once: app.run(threaded=True) gives every request
   its own thread, and voice_chat calls generate_response of the one
   PureSyncLLM with no lock.  Each statement of generate_response and of
   add_to_history is one step, so the steps of two threads interleave. *)

Handlers == {"h1", "h2"}

ReqInit ==
    /\ reqPc = [t \in Handlers |-> "idle"]
    /\ reqUser = [t \in Handlers |-> 0]
    /\ reqAsst = [t \in Handlers |-> 0]
    /\ reqRead = [t \in Handlers |-> 0]

\* self.conversation_history.append({"role": role, "content": content})
HistoryAppend(role) ==
    LET content == Len(appended) + 1
    IN  /\ conversation_history' =
               Append(conversation_history, [role |-> role, content |-> content])
        /\ appended' = Append(appended, [role |-> role, content |-> content])

\* if len(self.conversation_history) > 10: self.conversation_history = ...[-10:]
HistoryTrim ==
    /\ conversation_history' = IF Len(conversation_history) > HistoryCap
                               THEN LastN(conversation_history, HistoryCap)
                               ELSE conversation_history
    /\ UNCHANGED appended

\* voice_chat reaches llm.generate_response: add_to_history("user", ...) appends
ReqAppendUser(t) ==
    /\ reqPc[t] = "idle"
    /\ Len(appended) + 2 <= MaxAppends
    /\ HistoryAppend("user")
    /\ reqUser' = [reqUser EXCEPT ![t] = Len(appended) + 1]
    /\ reqAsst' = [reqAsst EXCEPT ![t] = 0]
    /\ reqRead' = [reqRead EXCEPT ![t] = 0]
    /\ reqPc' = [reqPc EXCEPT ![t] = "trim_user"]
    /\ UNCHANGED ReqOthers

\* the trim that ends add_to_history("user", ...)
ReqTrimUser(t) ==
    /\ reqPc[t] = "trim_user"
    /\ HistoryTrim
    /\ reqPc' = [reqPc EXCEPT ![t] = "build"]
    /\ UNCHANGED <<reqUser, reqAsst, reqRead, ReqOthers>>

\* messages = [system]; messages.extend(self.conversation_history)
ReqBuild(t) ==
    /\ reqPc[t] = "build"
    /\ reqRead' = [reqRead EXCEPT ![t] = Len(conversation_history)]
    /\ reqPc' = [reqPc EXCEPT ![t] = "await"]
    /\ UNCHANGED <<histVars, reqUser, reqAsst, ReqOthers>>

\* the backend answers: a non-empty reply is appended, an empty reply, no
\* choices or an exception end the turn with None
ReqReply(t, reply) ==
    /\ reqPc[t] = "await"
    /\ IF reply = "text"
       THEN /\ HistoryAppend("assistant")
            /\ reqAsst' = [reqAsst EXCEPT ![t] = Len(appended) + 1]
            /\ reqPc' = [reqPc EXCEPT ![t] = "trim_asst"]
       ELSE /\ reqPc' = [reqPc EXCEPT ![t] = "idle"]
            /\ UNCHANGED <<histVars, reqAsst>>
    /\ UNCHANGED <<reqUser, reqRead, ReqOthers>>

\* the trim that ends add_to_history("assistant", ...); the turn returns
ReqTrimAsst(t) ==
    /\ reqPc[t] = "trim_asst"
    /\ HistoryTrim
    /\ reqPc' = [reqPc EXCEPT ![t] = "idle"]
    /\ UNCHANGED <<reqUser, reqAsst, reqRead, ReqOthers>>

ReqNext ==
    \E t \in Handlers :
        \/ ReqAppendUser(t)
        \/ ReqTrimUser(t)
        \/ ReqBuild(t)
        \/ \E reply \in {"text", "empty", "raise"} : ReqReply(t, reply)
        \/ ReqTrimAsst(t)

----------------------------------------------------------------------------
(* Start-up of the web application: main starts initialize_components in a
   daemon thread and then serves requests, so requests arrive while the
   globals are being assigned.  Each statement of initialize_components is
   one step. *)

\* the statements of initialize_components with is_initialized raised first
InitOrderFlagFirst == <<"flag", "stt", "llm", "tts", "tts_init">>

\* the statements of initialize_components, in program order
InitOrder == <<"stt", "llm", "tts", "tts_init", "flag">>

HandleNames == {"stt", "llm", "tts"}

\* the handles voice_chat uses, in the order it uses them
UseOrder == <<"stt", "llm", "tts">>

BootInit ==
    /\ stt = "None"
    /\ llm = "None"
    /\ tts = "None"
    /\ app_is_initialized = FALSE
    /\ initPc = 1
    /\ hPc = [t \in Handlers |-> 0]
    /\ hSaw = [t \in Handlers |-> FALSE]
    /\ hStatus = [t \in Handlers |-> 0]
    /\ hTouched = [t \in Handlers |-> {}]
    /\ nullUse = FALSE
    /\ requests = 0

Handle(name) ==
    CASE name = "stt" -> stt
      [] name = "llm" -> llm
      [] name = "tts" -> tts

\* the next statement of initialize_components; a constructor or
\* tts.initialize() that raises ends it in the except branch, which returns
\* False and leaves is_initialized as it is
InitStep(outcome) ==
    /\ initPc \in 1..Len(InitOrder)
    /\ LET stmt == InitOrder[initPc]
       IN  IF outcome = "raise" /\ stmt # "flag"
           THEN /\ initPc' = 0
                /\ UNCHANGED <<stt, llm, tts, app_is_initialized>>
           ELSE /\ initPc' = initPc + 1
                /\ stt' = IF stmt = "stt" THEN "object" ELSE stt
                /\ llm' = IF stmt = "llm" THEN "object" ELSE llm
                /\ tts' = IF stmt = "tts" THEN "object" ELSE tts
                /\ app_is_initialized' = IF stmt = "flag" THEN TRUE ELSE app_is_initialized
    /\ UNCHANGED <<hPc, hSaw, hStatus, hTouched, nullUse, requests>>
    /\ UNCHANGED BootOthers

\* a request reaches voice_chat: if not is_initialized: return ..., 503
RequestCheck(t) ==
    /\ hPc[t] = 0
    /\ hStatus[t] = 0
    /\ requests < MaxRequests
    /\ requests' = requests + 1
    /\ hSaw' = [hSaw EXCEPT ![t] = app_is_initialized]
    /\ IF app_is_initialized
       THEN /\ hPc' = [hPc EXCEPT ![t] = 1]
            /\ UNCHANGED hStatus
       ELSE /\ hStatus' = [hStatus EXCEPT ![t] = 503]
            /\ UNCHANGED hPc
    /\ UNCHANGED <<stt, llm, tts, app_is_initialized, initPc, hTouched, nullUse>>
    /\ UNCHANGED BootOthers

\* the handler's next stage uses its handle: stt.transcribe_audio,
\* llm.generate_response, then "if tts and tts.is_initialized" and
\* tts.synthesize; a stage without a result ends the request early
RequestUse(t, outcome) ==
    /\ hPc[t] \in 1..Len(UseOrder)
    /\ LET name == UseOrder[hPc[t]]
       IN  /\ hTouched' = [hTouched EXCEPT ![t] = @ \cup {name}]
           /\ nullUse' = (nullUse \/ Handle(name) = "None")
    /\ IF outcome = "go" /\ hPc[t] < Len(UseOrder)
       THEN /\ hPc' = [hPc EXCEPT ![t] = @ + 1]
            /\ UNCHANGED hStatus
       ELSE /\ hPc' = [hPc EXCEPT ![t] = 0]
            /\ hStatus' = [hStatus EXCEPT ![t] = 200]
    /\ UNCHANGED <<stt, llm, tts, app_is_initialized, initPc, hSaw, requests>>
    /\ UNCHANGED BootOthers

\* the response is sent and the thread takes the next request
RequestDone(t) ==
    /\ hStatus[t] # 0
    /\ hStatus' = [hStatus EXCEPT ![t] = 0]
    /\ hTouched' = [hTouched EXCEPT ![t] = {}]
    /\ hSaw' = [hSaw EXCEPT ![t] = FALSE]
    /\ UNCHANGED <<stt, llm, tts, app_is_initialized, initPc, hPc, nullUse, requests>>
    /\ UNCHANGED BootOthers

BootNext ==
    \/ \E o \in {"ok", "raise"} : InitStep(o)
    \/ \E t \in Handlers : RequestCheck(t)
    \/ \E t \in Handlers : \E o \in {"go", "end"} : RequestUse(t, o)
    \/ \E t \in Handlers : RequestDone(t)

----------------------------------------------------------------------------
(* Specifications *)

Init ==
    HistInit /\ TTSInit /\ SyncInit /\ LoopInit /\ VadInit /\ PlayInit /\ UpInit /\ ArtInit
    /\ ReqInit /\ StopInit /\ BootInit

Next ==
    \/ HistNext
    \/ TTSNext
    \/ SyncNext
    \/ LoopNext
    \/ VadNext
    \/ PlayNext
    \/ UpNext
    \/ ArtNext
    \/ ReqNext
    \/ StopNext
    \/ BootNext

Spec == Init /\ [][Next]_vars

SpecHist == Init /\ [][HistNext]_vars

SpecTTS == Init /\ [][TTSNext]_vars

SpecSync == Init /\ [][SyncNext]_vars

SpecLoop == Init /\ [][LoopNext]_vars

SpecVAD == Init /\ [][VadNext]_vars

SpecPlay == Init /\ [][PlayNext]_vars

SpecTurn == Init /\ [][TurnNext]_vars

SpecUpload == Init /\ [][UpNext]_vars

SpecChat == Init /\ [][ChatNext]_vars

SpecAudio == Init /\ [][ArtNext]_vars

SpecShared == Init /\ [][ReqNext]_vars

SpecStop == Init /\ [][StopNext]_vars

SpecBoot == Init /\ [][BootNext]_vars

\* the loop of record_with_vad keeps running and time keeps passing
FairSpecVAD == SpecVAD /\ WF_vars(VadStep) /\ WF_vars(Tick)

----------------------------------------------------------------------------
(* C1: providers are tried strictly in the order primary, gTTS, say, tone: a
   provider is invoked only after every earlier provider in the order has
   been tried and has failed, and no provider is invoked after one has
   returned a non-empty result.  A provider that initialize found unusable
   counts here as tried and failed. *)
C1_StrictProviderOrder ==
    /\ \A i \in 1..Len(tried) : \A p \in Providers :
          Rank(p) < Rank(tried[i].provider) =>
             \/ p \in unusable
             \/ \E j \in 1..(i - 1) : tried[j].provider = p /\ tried[j].outcome # "audio"
    /\ \A i \in 1..(Len(tried) - 1) : tried[i].outcome # "audio"

(* C2: a synthesis run never ends without audio: whatever the provider does
   (exception, timeout, empty result, not initialised), synthesize returns
   a tone rather than None. *)
C2_NeverWithoutAudio ==
    \A c \in Calls : syncResult[c] \in {"pending", "audio", "beep", "error_tone"}

(* C3: when the provider has not finished by the deadline of the join, the
   run continues to the fallback: what the abandoned provider produces
   afterwards never becomes the returned result. *)
C3_LateResultDiscarded ==
    \A c \in Calls : joinTimedOut[c] => syncResult[c] \in {"pending", "beep", "error_tone"}

(* C4: every started turn eventually ends, even when a backend never
   returns: each stage is bounded by its own timeout, so while a turn is in
   a stage the loop always has a step to take. *)
C4_EveryStageBounded ==
    loopPc \in BackendStages => ENABLED LoopProgress

(* C6: a recording session is ended by silence only when the silence since
   the last voiced frame exceeds the silence budget and the elapsed time has
   reached the minimum; below the minimum a session that no exception
   breaks off ends by the max-duration timeout only. *)
C6_SilenceEndNeedsBoth ==
    /\ endReason = "silence" =>
          /\ endedAt - lastVoicedAt > SilenceDuration
          /\ endedAt - start_time >= MinRecording
    /\ (endReason \notin {"none", "error"} /\ endedAt - start_time < MinRecording)
           => endReason = "timeout"

\* a session ended by silence and returned its audio
C6_Witness ==
    /\ vadPc = "returned"
    /\ endReason = "silence"
    /\ vadResult.kind = "audio"

(* C7: whatever the detector state and whether or not frames keep arriving,
   the loop never waits for another frame once the elapsed time exceeds the
   maximum duration, and every started session eventually returns. *)
C7_SessionTerminates ==
    /\ [][(vadPc = "top" /\ vadPc' = "get") => now - start_time <= max_duration]_vars
    /\ (vadPc \in LoopPcs) ~> (vadPc = "returned")

\* a session in which voice was heard ran into the max-duration timeout
C7_Witness ==
    /\ vadPc = "returned"
    /\ endReason = "timeout"
    /\ detector = "Voiced"
    /\ endedAt - start_time > max_duration

(* C8: when no frame's peak amplitude exceeds the activity threshold, the
   session's result is "no speech detected" (None) and no audio is handed
   on to transcription. *)
C8_SilenceIsNoSpeech ==
    (/\ vadPc = "returned"
     /\ \A i \in 1..Len(vadResult.frames) : vadResult.frames[i].level <= VadThreshold)
    => /\ vadResult.kind = "none"
       /\ stt_input.kind # "audio"
       /\ ~whisper_called

(* C9: a voiced frame taken during trailing silence re-arms the silence
   timer: the timer always starts at the latest voiced frame, and a session
   completes by silence only after a full silence budget since that frame. *)
C9_VoiceRearmsSilenceTimer ==
    /\ recording_started => last_voice_time = lastVoicedAt
    /\ (rearmed /\ endReason = "silence") => endedAt - lastVoicedAt > SilenceDuration

\* a session that was re-armed during trailing silence and then completed by silence
C9_Witness ==
    /\ rearmed
    /\ endReason = "silence"
    /\ vadPc = "returned"

(* C10: at most one recording is active: start_recording while a recording
   is active returns False, starts and queues nothing, and leaves the
   accumulated frames, the inbound channel and the stream unchanged. *)
C10_SecondStartRejected ==
    /\ [](active_streams <= 1)
    /\ [][rejected' # rejected =>
             /\ is_recording /\ is_recording'
             /\ ~last_start'
             /\ UNCHANGED <<recorded_frames, audio_queue, recording_stream, active_streams,
                            owner>>]_vars

\* a start_recording call was made during a session with accumulated and queued frames
C10_Witness ==
    /\ rejected > 0
    /\ ~last_start
    /\ owner = "vad"
    /\ is_recording
    /\ recorded_frames # << >>
    /\ audio_queue # << >>

(* C11: at most one playback is active at any time, also when play_audio is
   invoked from several threads at once: a request made while another
   playback is active returns False without starting a second one. *)
C11_SinglePlayback ==
    Cardinality({t \in Players : playPc[t] \in Active}) <= 1

(* C12: within a turn the stages run in order, each only after the previous
   one succeeded: the reply stage only with a usable transcription, the
   synthesis only with a reply, the playback only with synthesized audio;
   and a next turn starts only after the current turn's playback has
   returned or the turn has failed. *)
C12_StagesInOrder ==
    /\ [](/\ "reply" \in invoked => "transcribe" \in invoked /\ user_input # << >>
          /\ "synthesize" \in invoked => "reply" \in invoked /\ ai_response = "reply"
          /\ "play" \in invoked => "synthesize" \in invoked /\ speech = "audio")
    /\ [][conversation_count' # conversation_count =>
             conversation_count = 0 \/ turn_result \in Failures \cup {"ok"}]_vars

\* a turn ran through all five stages and its playback returned True
C12_Witness ==
    /\ invoked = {"record", "transcribe", "whisper", "reply", "synthesize", "play"}
    /\ turn_result = "ok"
    /\ loopPc = "top"

(* C13: when the transcribed utterance, lower-cased and trimmed, is an exit
   phrase, the loop ends, and for that utterance the reply backend is not
   called, nothing is appended to the history and nothing is synthesized or
   played. *)
C13_ExitPhraseEndsSession ==
    (user_input # << >> /\ Strip(Lower(user_input)) \in ExitPhrases) =>
        /\ loopPc = "exited"
        /\ invoked \cap {"reply", "synthesize", "play"} = {}
        /\ Len(appended) = turn_base

\* the loop ended on an exit phrase that was not written in lower case
C13_Witness ==
    /\ loopPc = "exited"
    /\ turn_result = "exit"
    /\ user_input \notin ExitPhrases
    /\ conversation_count > 1

(* C16: no exception raised inside the transcription, reply, synthesis or
   playback stage leaves the turn: the loop never ends on an exception, it
   ends only on an exit phrase or after an interrupt. *)
C16_StageErrorsContained ==
    /\ ~loop_error
    /\ loopPc = "exited" => (turn_result = "exit" \/ ~is_running)
    /\ turn_result # "error"

\* exceptions were raised in the transcription and in the playback of earlier
\* turns and the loop has started another turn
C16_Witness ==
    /\ {"transcribe", "play"} \subseteq raised
    /\ loopPc = "recording"
    /\ is_running

(* C14: after a user interrupt no new turn starts; and a recording that is
   in progress when the interrupt arrives is ended at once: its loop does
   not go on to wait for another frame. *)
C14_InterruptEndsRecording ==
    /\ [][~is_running => conversation_count' = conversation_count]_vars
    /\ [][(~is_running /\ vadPc = "top") => vadPc' # "get"]_vars

(* C15: after a turn that failed at any stage the session is still running
   and ready: the failure does not lower is_running, the loop (unless the
   user interrupts) is on its way to the next turn and can take its next
   step, and no recording and no playback is active. *)
C15_FailedTurnLeavesSessionReady ==
    /\ [](turn_result \in Failures =>
             /\ is_running => loopPc \in {"sleep_noinput", "sleep_turn", "top"}
             /\ ~loop_error
             /\ ~is_recording /\ active_streams = 0
             /\ ~is_playing
             /\ (is_running /\ conversation_count < MaxTurns) => ENABLED TurnContinues)
    /\ [][(turn_result' \in Failures /\ turn_result' # turn_result) =>
             is_running' = is_running]_vars

\* a turn whose playback failed is over and the loop is ready for the next turn
C15_Witness ==
    /\ turn_result = "play_failed"
    /\ loopPc = "top"
    /\ vadPc = "idle"
    /\ playPc[LoopPlayer] = "idle"
    /\ is_running
    /\ recorded_frames # << >>

(* C17: ffmpeg is the first decoder attempted, and whenever it cannot be
   launched or exits with an error pydub is attempted before the conversion
   reports failure. *)
C17_SecondaryDecoderAttempted ==
    /\ upTried # << >> => upTried[1] = "ffmpeg"
    /\ (upPc \in {"converted", "stt", "llm", "tts", "done"} /\ upBuffer.kind = "none"
           /\ upTried # << >> /\ upEnv.ffmpeg \in {"error", "missing"}) =>
          upTried = <<"ffmpeg", "pydub">>

(* C18: when both decoders have failed the upload ends with the decode
   error, which no other failure produces, and neither the transcription
   nor the reply nor the synthesis is invoked: the failed decode is not
   passed on as audio. *)
C18_DecodeErrorIsFinal ==
    /\ (upPc \in {"stt", "llm", "tts", "done"} /\ upBuffer.kind = "none") =>
           /\ upPc = "done"
           /\ upError = DecodeError
           /\ upInvoked = {}
    /\ upError = DecodeError => upBuffer.kind = "none" /\ upInvoked = {}

\* ffmpeg exited with an error, pydub raised, and the request is over
C18_Witness ==
    /\ upPc = "done"
    /\ upTried = <<"ffmpeg", "pydub">>
    /\ upEnv.pydub = "fail"
    /\ upError = DecodeError

(* C19: every buffer the conversion returns is mono and at the target
   sample rate, which is the rate the transcription assumes, whatever the
   container, the native rate and the channel count of the upload. *)
C19_BufferMonoAtTargetRate ==
    upBuffer.kind = "audio" =>
        /\ upBuffer.channels = 1
        /\ upBuffer.rate = TargetSampleRate
        /\ upBuffer.rate = SampleRate

(* C20: the number of frames waiting in the inbound channel never exceeds a
   fixed capacity: when the consumer falls behind, a frame is dropped or the
   producer held back.  The capacity tried here is one frame less than the
   producer delivers. *)
C20_ChannelBounded ==
    Len(audio_queue) <= MaxFrames - 1

(* C21: the text handed to a synthesis provider has at most cap + 3 = 203
   characters, whatever the length of the reply. *)
C21_SynthesisInputCapped ==
    /\ \A i \in 1..Len(tried) : tried[i].len <= TruncateCap + MarkerLen
    /\ syncText <= TruncateCap + MarkerLen

(* C22: recorded audio that is absent, empty or shorter than 0.1 s
   short-circuits the turn: the Whisper backend is not called, no reply is
   asked for and nothing is appended to the history. *)
C22_ShortAudioShortCircuits ==
    /\ (/\ vadPc = "returned"
        /\ loopPc # "recording"
        /\ \/ vadResult.kind # "audio"
           \/ Len(vadResult.frames) * ChunkSize * 10 < SampleRate)
           => /\ loopPc = "sleep_noinput"
              /\ turn_result \in {"no_audio", "stt_failed"}
              /\ invoked \cap {"whisper", "reply", "synthesize", "play"} = {}
              /\ user_input = << >>
              /\ Len(appended) = turn_base
    /\ "reply" \in invoked => "whisper" \in invoked

\* a recording of a single frame, 0.064 s, was handed to transcribe_audio
C22_Witness ==
    /\ vadPc = "returned"
    /\ vadResult.kind = "audio"
    /\ Len(vadResult.frames) = 1
    /\ "transcribe" \in invoked
    /\ turn_result = "stt_failed"

(* C23: a transcription result that, trimmed and lower-cased, is empty or one
   of the placeholders 'you', 'thank you', 'thanks' is no speech: the turn has
   no user utterance, the reply backend is not called and the history stays
   as it was. *)
C23_PlaceholderIsNoSpeech ==
    (/\ response.kind = "text"
     /\ Lower(Strip(response.text)) \in
            { << >>, <<"y", "o", "u">>, <<"t", "h", "a", "n", "k", "s">>,
              <<"t", "h", "a", "n", "k", " ", "y", "o", "u">> })
        => /\ user_input = << >>
           /\ turn_result = "stt_failed"
           /\ invoked \cap {"reply", "synthesize", "play"} = {}
           /\ Len(appended) = turn_base
           /\ loopPc \in {"sleep_noinput", "top", "exited"}

\* the backend answered " \nThank you " and the turn ended without speech
C23_Witness ==
    /\ response = [kind |-> "text",
                   text |-> <<" ", "\n", "T", "h", "a", "n", "k", " ", "y", "o", "u", " ">>]
    /\ turn_result = "stt_failed"
    /\ loopPc = "sleep_noinput"

(* C24: on a turn whose reply succeeds the history gains exactly the user
   utterance and then the assistant reply; the reply backend is sent the
   system instruction followed by the bounded history, which ends with that
   user utterance; an empty reply or an error of the backend fails the turn
   and appends no assistant entry. *)
C24_HistoryGainsUserThenReply ==
    /\ ai_response = "reply"
           => /\ Len(appended) = turn_base + 2
              /\ appended[turn_base + 1].role = "user"
              /\ appended[turn_base + 2].role = "assistant"
              /\ LastN(conversation_history, 2) = SubSeq(appended, turn_base + 1, turn_base + 2)
    /\ "reply" \in invoked
           => /\ messages # << >>
              /\ Head(messages) = [role |-> "system", content |-> 0]
              /\ Tail(messages) = LastN(SubSeq(appended, 1, turn_base + 1), HistoryCap)
              /\ messages[Len(messages)] = [role |-> "user", content |-> turn_base + 1]
    /\ turn_result = "reply_failed"
           => /\ ai_response = "none"
              /\ Len(appended) = turn_base + 1
              /\ appended[turn_base + 1].role = "user"

\* a reply succeeded on a turn that started with a full history: the request
\* carried the system instruction and the last HistoryCap entries
C24_Witness ==
    /\ ai_response = "reply"
    /\ turn_base >= HistoryCap
    /\ Len(messages) = HistoryCap + 1
    /\ Len(conversation_history) = HistoryCap
    /\ Len(appended) > HistoryCap

(* C25: at most one provider of a synthesis call is executing at any
   instant: while the fallback of a call generates its beep, the provider
   thread abandoned at the deadline of the join is no longer running. *)
C25_OneProviderAtATime ==
    \A c \in Calls :
        (syncCall = c /\ syncPc = "beep") => thr[c] \notin {"running", "writing", "saved"}

(* C26: an upload whose transcription and reply both succeed is answered
   with success, carrying the user text and the reply text, also when the
   synthesis yields no audio: on every upload entry point. *)
C26_SuccessWithoutAudio ==
    (upPc = "done" /\ "llm" \in upInvoked /\ upError # LlmError(upApp)) => upError = ""

(* C27: a stored audio file is retrieved once by its id: after it has been
   served, a later request with the same id no longer returns it. *)
C27_ServedOnce ==
    \A id \in AudioIds : serves[id] <= 1

(* C28: a live recording of silence, then voice, then silence, ended by the
   silence, returns the voiced span and the trailing silence: the frames before the first voiced
   frame are not part of the returned audio. *)
C28_LeadingSilenceExcluded ==
    (/\ vadResult.kind = "audio"
     /\ endReason = "silence"
     /\ \E i \in 1..Len(vadResult.frames) : IsVoiced(vadResult.frames[i]))
        => IsVoiced(vadResult.frames[1])

(* C29: the conversion of an upload that is already mono and at the target
   rate returns the samples of the file: they are neither resampled nor
   rescaled in amplitude. *)
C29_IdentityAtTargetRate ==
    (/\ upBuffer.kind = "audio"
     /\ upBlob.ext = ".wav"
     /\ upBlob.channels = 1
     /\ upBlob.rate = TargetSampleRate)
        => /\ upBuffer.ops = {}
           /\ upBuffer.rate = TargetSampleRate
           /\ upBuffer.channels = 1

(* C30: when a provider raises or returns nothing at synthesis time the next
   provider in the order is attempted, not skipped: between two providers
   tried one after the other there is none but those found unusable at
   initialisation, so a primary model that loaded and then fails is followed
   by gTTS; and the empty result of a provider is never what synthesize
   returns for a non-empty text. *)
C30_FailedProviderFallsToNext ==
    /\ \A i \in 1..(Len(tried) - 1) :
           /\ tried[i].outcome \in {"raise", "empty"}
           /\ \A p \in Providers :
                  (Rank(tried[i].provider) < Rank(p) /\ Rank(p) < Rank(tried[i + 1].provider))
                      => p \in unusable
    /\ (ttsPc = "done" /\ tried # << >> /\ ttsText > 0) => ttsResult.samples > 0

(* C31: the silence budget is looked at on every poll of the inbound channel,
   also on a poll that times out without a frame: once voice has been heard,
   the silence budget has elapsed and the minimum has been reached, no poll
   sends the loop back to its top to go on recording. *)
C31_BudgetsCheckedOnEveryPoll ==
    [][(/\ vadPc = "get"
        /\ recording_started
        /\ now - last_voice_time > SilenceDuration
        /\ now - start_time >= MinRecording)
           => vadPc' # "top"]_vars

(* C32: after record_with_vad has returned, by silence, by the timeout, by a
   device that could not be opened or by an exception in the loop, the
   handler is idle again: is_recording is false, no input stream is running
   and a following start_recording is accepted. *)
C32_ReturnLeavesIdle ==
    vadPc = "returned" =>
        /\ endReason \in {"none", "silence", "timeout", "error"}
        /\ ~is_recording
        /\ active_streams = 0
        /\ start_recording("ok").ret

\* the loop raised after a frame had been recorded
C32_Witness ==
    /\ vadPc = "returned"
    /\ endReason = "error"
    /\ recorded_frames # << >>
    /\ ~is_recording

(* C33: the audio a recording session returns is the concatenation, in the
   order of emission, of exactly the frames the callback enqueued during the
   session: none is lost, doubled or out of place, and none comes from an
   earlier session.  While the session runs, the frames taken and the frames
   queued are together the frames emitted since it started. *)
C33_ExactlyTheSessionFrames ==
    /\ (vadPc = "returned" /\ vadResult.kind = "audio")
           => /\ Len(vadResult.frames) = produced - session_base
              /\ \A i \in 1..Len(vadResult.frames) : vadResult.frames[i].seq = session_base + i
    /\ vadPc \in LoopPcs \cup {"stop"}
           => LET frames == recorded_frames \o audio_queue
              IN  /\ Len(frames) = produced - session_base
                  /\ \A i \in 1..Len(frames) : frames[i].seq = session_base + i

\* a second session returned frames, some of which were still queued when
\* its loop ended
C33_Witness ==
    /\ vadPc = "returned"
    /\ vadResult.kind = "audio"
    /\ session_base > 0
    /\ Len(vadResult.frames) >= 2

\* C34: while upload turns run at once on the shared PureSyncLLM, the
\* assistant entry a turn appends directly follows that turn's own user entry
\* (no other turn's entry lies between them), and the history a turn reads
\* for its reply call never holds more than HistoryCap entries.
C34_TurnsDoNotInterleave ==
    \A t \in Handlers :
        /\ reqAsst[t] # 0 => reqAsst[t] = reqUser[t] + 1
        /\ reqRead[t] <= HistoryCap

\* C35: under every interleaving of play_audio, stop_playback and cleanup,
\* is_playing is up only while some play_audio call is between raising it and
\* returning, and it is never down while a playback that play_audio accepted
\* is still sounding.
C35_FlagTracksPlayback ==
    /\ is_playing => \E t \in Players : playPc[t] \in {"flagged", "waiting", "stopped"}
    /\ \A t \in Players : playPc[t] = "waiting" => is_playing

\* C36: a synthesized buffer is played at the rate at which the tier that
\* returned it produced it, whichever tier that was.
C36_PlayedAtProducedRate ==
    (ttsPc = "done" /\ ttsResult.samples > 0)
        => ProducedRate(ttsResult.provider) = PlayedRate

\* C37: whenever is_initialized is true the stt, llm and tts handles are all
\* assigned, no request ever uses a handle that is still None, and a request
\* that read is_initialized as false is answered 503 without having used any
\* handle.
C37_HandlesAssignedBeforeUse ==
    /\ app_is_initialized => \A name \in HandleNames : Handle(name) = "object"
    /\ ~nullUse
    /\ \A t \in Handlers :
           /\ (hStatus[t] # 0 /\ ~hSaw[t]) => (hStatus[t] = 503 /\ hTouched[t] = {})
           /\ hTouched[t] # {} => hSaw[t]

\* one request was turned away with 503 while another, after initialisation,
\* has used all three handles
C37_Witness ==
    /\ app_is_initialized
    /\ \E t, u \in Handlers :
           /\ hStatus[t] = 503 /\ hTouched[t] = {}
           /\ hStatus[u] = 200 /\ hTouched[u] = HandleNames

\* C38: once initialize has returned, by whichever path (primary model,
\* a fallback tier, or an exception during the fallback selection),
\* is_initialized is true and use_fallback is assigned; and no later call,
\* of initialize or of anything else, changes the attributes it set.
C38_InitializeSettles ==
    /\ [](init_path # "none" => (tts_is_initialized /\ use_fallback \in {"T", "F"}))
    /\ [][tts_is_initialized => CurrentAttrs' = CurrentAttrs]_vars

\* initialize has returned through the except branch of the fallback selection
C38_Witness ==
    /\ init_path = "error"
    /\ tts_is_initialized
    /\ use_fallback = "T"
    /\ ttsPc = "done"

\* C39: once synthesize has returned, the temporary file it created for the
\* provider's output does not exist, also when the provider thread was
\* abandoned on timeout and goes on after the return.
C39_TempFileGone ==
    \A c \in Calls : syncResult[c] # "pending" => file[c] = "absent"

====
